---- MODULE Spec2Model ----
(***************************************************************************)
(* Model of the efemel execution pipeline: run() of main.go (producer,     *)
(* worker pool, result-channel closer, writer pool / dry-run consumer),    *)
(* the output naming helpers and the per-worker Lua state manager.         *)
(* Strings are sequences of one-character strings.                         *)
(***************************************************************************)
EXTENDS Integers, Sequences, FiniteSets, TLC

\* ---------------------------------------------------------------- bounds
MaxFiles == 2
MaxWorkers == 2
MaxWriters == 2
MaxBuf == 1
MaxCalls == 4
MaxItems == 3
MaxPoolWorkers == 2
MaxPoolSize == 4
MaxGlobs == 2

\* ------------------------------------------------------- string helpers
RECURSIVE LastIndexOf(_, _, _)
\* largest i <= n with s[i] = c, or 0
LastIndexOf(s, c, n) ==
    IF n = 0 THEN 0
    ELSE IF s[n] = c THEN n ELSE LastIndexOf(s, c, n - 1)

HasSuffix(s, suf) ==
    /\ Len(suf) <= Len(s)
    /\ SubSeq(s, Len(s) - Len(suf) + 1, Len(s)) = suf

\* strings.TrimSuffix
TrimSuffix(s, suf) ==
    IF HasSuffix(s, suf) THEN SubSeq(s, 1, Len(s) - Len(suf)) ELSE s

\* filepath.Ext: the suffix beginning at the final dot in the final
\* element of the path; empty if there is no dot.
Ext(path) ==
    LET slash == LastIndexOf(path, "/", Len(path))
        dot   == LastIndexOf(path, ".", Len(path))
    IN  IF dot > slash THEN SubSeq(path, dot, Len(path)) ELSE <<>>

RECURSIVE SplitPath(_, _)
\* the "/"-separated components of s, acc is the component being read
SplitPath(s, acc) ==
    IF s = <<>> THEN <<acc>>
    ELSE IF Head(s) = "/" THEN <<acc>> \o SplitPath(Tail(s), <<>>)
    ELSE SplitPath(Tail(s), Append(acc, Head(s)))

RECURSIVE JoinComponents(_)
JoinComponents(cs) ==
    IF cs = <<>> THEN <<>>
    ELSE IF Len(cs) = 1 THEN cs[1]
    ELSE cs[1] \o <<"/">> \o JoinComponents(Tail(cs))

RECURSIVE DropDots(_)
\* filepath.Clean on relative paths without "..": empty and "." components go
DropDots(cs) ==
    IF cs = <<>> THEN <<>>
    ELSE IF Head(cs) = <<>> \/ Head(cs) = <<".">> THEN DropDots(Tail(cs))
    ELSE <<Head(cs)>> \o DropDots(Tail(cs))

Clean(path) ==
    LET cs == DropDots(SplitPath(path, <<>>))
    IN  IF cs = <<>> THEN <<".">> ELSE JoinComponents(cs)

\* filepath.Join of two elements: empty elements are ignored, the result is
\* cleaned; the join of only empty elements is the empty string.
Join(a, b) ==
    IF a = <<>> /\ b = <<>> THEN <<>>
    ELSE IF a = <<>> THEN Clean(b)
    ELSE IF b = <<>> THEN Clean(a)
    ELSE Clean(a \o <<"/">> \o b)

\* filepath.Dir: everything before the final slash, cleaned; "." if none
Dir(path) ==
    LET slash == LastIndexOf(path, "/", Len(path))
    IN  Clean(SubSeq(path, 1, slash))

\* filepath.Base on a path without trailing slash
Base(path) ==
    LET slash == LastIndexOf(path, "/", Len(path))
    IN  IF path = <<>> THEN <<".">> ELSE SubSeq(path, slash + 1, Len(path))

\* ------------------------------------------------------ Lua value model
LNil == [type |-> "nil"]
LBool(b) == [type |-> "bool", b |-> b]
LNumber(n) == [type |-> "number", n |-> n]
\* the number 0/0
LNaN == [type |-> "number", nan |-> TRUE]
LString(s) == [type |-> "string", s |-> s]
\* a table: array part plus string-keyed part (keys in insertion order)
LTable(arr, keys, vals) == [type |-> "table", arr |-> arr, keys |-> keys, vals |-> vals]
\* in a script's source: the expression that reads the global variable g
LGlobal == [type |-> "global"]
\* function() return <ret> end
LFunction(ret) == [type |-> "function", ret |-> ret]
\* in a script's source: the expression require "<name>"
LRequire(name) == [type |-> "require", name |-> name]

RECURSIVE EvalFields(_, _, _)
\* a table constructor: each field's value is evaluated, and a field whose
\* value is nil is absent from the table
EvalFields(keys, vals, g) ==
    IF keys = <<>> THEN [keys |-> <<>>, vals |-> <<>>]
    ELSE LET rest == EvalFields(Tail(keys), Tail(vals), g)
             v == IF Head(vals).type = "global" THEN g ELSE Head(vals)
         IN  IF v.type = "nil" THEN rest
             ELSE [keys |-> <<Head(keys)>> \o rest.keys, vals |-> <<v>> \o rest.vals]

\* the value of a returned expression in a Lua state whose global g is g
Eval(e, g) ==
    IF e.type = "global" THEN g
    ELSE IF e.type = "table"
    THEN LET f == EvalFields(e.keys, e.vals, g) IN LTable(e.arr, f.keys, f.vals)
    ELSE e

\* the generic value model produced by the conversion
GoNil == [go |-> "nil"]
GoPanic == [go |-> "panic"]
GoSeq(s) == [go |-> "seq", seq |-> s]
GoMap(m) == [go |-> "map", map |-> m]

\* LTable.MaxN: the length of the array part
MaxN(table) == Len(table.arr)

RECURSIVE luaValueToInterface(_)
RECURSIVE luaTableToMap(_)
luaValueToInterface(value) ==
    CASE value.type = "bool" -> [go |-> "bool", b |-> value.b]
      [] value.type = "number" ->
            IF "nan" \in DOMAIN value THEN [go |-> "number", nan |-> TRUE]
            ELSE [go |-> "number", n |-> value.n]
      [] value.type = "string" -> [go |-> "string", s |-> value.s]
      [] value.type = "table" -> luaTableToMap(value)
      [] OTHER -> GoNil

\* ForEach visits the array part and then the keyed part; in the array
\* branch the callback asserts the key to be a number, which panics on a
\* string key.
luaTableToMap(table) ==
    IF MaxN(table) > 0
    THEN IF table.keys # <<>> THEN GoPanic
         ELSE LET arr == [i \in 1..MaxN(table) |-> luaValueToInterface(table.arr[i])]
              IN  IF \E i \in 1..Len(arr) : arr[i] = GoPanic THEN GoPanic ELSE GoSeq(arr)
    ELSE LET ks == {table.keys[i] : i \in 1..Len(table.keys)}
             last(k) == CHOOSE i \in 1..Len(table.keys) :
                           /\ table.keys[i] = k
                           /\ \A j \in 1..Len(table.keys) : table.keys[j] = k => j <= i
             m == [k \in ks |-> luaValueToInterface(table.vals[last(k)])]
         IN  IF \E k \in ks : m[k] = GoPanic THEN GoPanic ELSE GoMap(m)

\* GetReturnedLuaTable: the value must be a table
GetReturnedLuaTable(value) ==
    IF value.type = "table" THEN [err |-> FALSE, table |-> value]
    ELSE [err |-> TRUE, table |-> LNil]

\* GetReturnedMap: error unless a table, else the converted table
GetReturnedMap(value) ==
    LET t == GetReturnedLuaTable(value)
    IN  IF t.err THEN [err |-> TRUE, val |-> GoNil]
        ELSE [err |-> FALSE, val |-> luaTableToMap(t.table)]

\* --------------------------------------------------------- environment
\* A script is what DoString does with it: raise an error, or return the
\* listed values (pushed on the interpreter stack).
ScriptError == [raises |-> TRUE, sets |-> LNil, rets |-> <<>>]
ScriptReturn(v) == [raises |-> FALSE, sets |-> LNil, rets |-> <<v>>]
\* g = <set>; return <v>
ScriptSetReturn(set, v) == [raises |-> FALSE, sets |-> set, rets |-> <<v>>]

\* The files FindFiles may hand to run(): name, readability and content.
FileA == [name |-> <<"s", "/", "a", ".", "l">>, readable |-> TRUE,
          script |-> ScriptSetReturn(LNumber(1), LTable(<<>>, <<"a">>, <<LNumber(1)>>))]
FileB == [name |-> <<"s", "/", "a", ".", "f">>, readable |-> TRUE,
          script |-> ScriptReturn(LTable(<<LString("x"), LString("y")>>, <<>>, <<>>))]
FileC == [name |-> <<"c", ".", "l">>, readable |-> TRUE,
          script |-> ScriptReturn(LTable(<<>>, <<"b", "g">>, <<LNumber(2), LGlobal>>))]
FileU == [name |-> <<"u", ".", "l">>, readable |-> FALSE,
          script |-> ScriptReturn(LTable(<<>>, <<>>, <<>>))]
FileE == [name |-> <<"s", "/", "e", ".", "l">>, readable |-> TRUE,
          script |-> ScriptError]
FileW == [name |-> <<"w", ".", "l">>, readable |-> TRUE,
          script |-> ScriptReturn(LTable(<<>>, <<"w">>, <<LBool(TRUE)>>))]

\* return {m = 0/0}
FileM == [name |-> <<"m", ".", "l">>, readable |-> TRUE,
          script |-> ScriptReturn(LTable(<<>>, <<"m">>, <<LNaN>>))]
\* return 3: the returned value is not a table
FileN == [name |-> <<"n", ".", "l">>, readable |-> TRUE,
          script |-> ScriptReturn(LNumber(3))]

FileSystem == {FileA, FileB, FileC, FileU, FileE, FileW, FileN, FileM}

\* ---------------------------------------------------------- script files
\* Scripts that exercise the conversion and the module resolver, each in a
\* file k<x>.l of the working directory.
ScriptFile(x, script) ==
    [name |-> <<"k", x, ".", "l">>, readable |-> TRUE, script |-> script]

\* the Mapping {b = 2}
MapB == LTable(<<>>, <<"b">>, <<LNumber(2)>>)

ScriptFiles ==
    {ScriptFile("a", ScriptReturn(LTable(<<LString("a"), LString("b")>>, <<>>, <<>>))),
     ScriptFile("b", ScriptReturn(LTable(<<LTable(<<LString("a")>>, <<"x">>,
                                                 <<LNumber(1)>>)>>, <<>>, <<>>))),
     ScriptFile("c", ScriptReturn(LTable(<<>>, <<"x", "n", "l">>,
                                         <<LNumber(1),
                                           LTable(<<>>, <<"y">>, <<LBool(TRUE)>>),
                                           LTable(<<LString("u")>>, <<>>, <<>>)>>))),
     ScriptFile("d", ScriptReturn(LTable(<<LString("a")>>, <<"x">>, <<LNumber(1)>>))),
     ScriptFile("e", ScriptReturn(LFunction(MapB))),
     ScriptFile("f", ScriptReturn(LFunction(LFunction(MapB)))),
     ScriptFile("g", ScriptReturn(LFunction(LFunction(LFunction(MapB))))),
     ScriptFile("h", ScriptReturn(MapB)),
     ScriptFile("i", ScriptReturn(LBool(TRUE))),
     ScriptFile("j", ScriptReturn(LNumber(3))),
     ScriptFile("k", ScriptReturn(LString("s"))),
     ScriptFile("l", ScriptReturn(LNil)),
     ScriptFile("m", [raises |-> FALSE, sets |-> LNil, rets |-> <<>>]),
     ScriptFile("n", ScriptReturn(LRequire(<<"m">>))),
     ScriptFile("o", ScriptReturn(LRequire(<<".", "/", "m">>))),
     ScriptFile("p", ScriptReturn(LRequire(<<"n">>))),
     ScriptFile("q", ScriptReturn(LRequire(<<"r">>))),
     ScriptFile("r", ScriptReturn(LRequire(<<"s">>))),
     ScriptFile("s", ScriptReturn(LRequire(<<"q">>))),
     \* a file that can be read while os.Stat does not find its directory
     [name |-> <<"z", "/", "k", ".", "l">>, readable |-> TRUE,
      script |-> ScriptReturn(MapB)]}


\* configured output root and formatter suffix
OutputRoot == <<"o">>

\* format identifiers and canonical suffixes
json == <<"j", "s", "o", "n">>
yaml == <<"y", "a", "m", "l">>
\* values of the -format flag: not given, the two supported ones, another one
Formats == {<<>>, json, yaml, <<"x", "m", "l">>}
\* values of the -suffix flag: not given, or given
Suffixes == {<<>>, <<"t">>}

getSuffix(suffix, defaultSuffix) ==
    IF suffix # <<>> THEN suffix ELSE defaultSuffix

NoFormatter == [Marshal |-> "none", suffix |-> <<>>]

\* variant: an empty format falls back to JSON
getFormatter_Default(format, userSuffix) ==
    IF format = <<>> \/ format = json
    THEN [err |-> FALSE, formatter |-> [Marshal |-> "json", suffix |-> json]]
    ELSE IF format = yaml
    THEN [err |-> FALSE, formatter |-> [Marshal |-> "yaml", suffix |-> yaml]]
    ELSE [err |-> TRUE, formatter |-> NoFormatter]

getFormatter(format, userSuffix) ==
    IF format = <<>> THEN [err |-> TRUE, formatter |-> NoFormatter]
    ELSE IF format = json
    THEN [err |-> FALSE,
          formatter |-> [Marshal |-> "json", suffix |-> getSuffix(json, userSuffix)]]
    ELSE IF format = yaml
    THEN [err |-> FALSE,
          formatter |-> [Marshal |-> "yaml", suffix |-> getSuffix(yaml, userSuffix)]]
    ELSE [err |-> TRUE, formatter |-> NoFormatter]

\* output paths on which the file-writing collaborator reports an error
UnwritablePaths == {<<"o", "/", "w", ".">> \o sfx : sfx \in {json, yaml} \cup Suffixes}

FileByName(name) == CHOOSE f \in FileSystem \cup ScriptFiles : f.name = name

\* ------------------------------------------------ external collaborators
\* fileProcessor.ReadFile
ReadFile(filename) ==
    LET f == FileByName(filename)
    IN  IF f.readable THEN [err |-> FALSE, data |-> f.script]
        ELSE [err |-> TRUE, data |-> ScriptError]

\* fileProcessor.GetPathToFile
GetPathToFile(filename) == Dir(filename)

\* fileProcessor.WriteFile: TRUE iff it returns an error
WriteFileFails(path) == path \in UnwritablePaths

RECURSIVE HasNaN(_)
HasNaN(v) ==
    CASE v.go = "number" -> "nan" \in DOMAIN v
      [] v.go = "seq" -> \E i \in 1..Len(v.seq) : HasNaN(v.seq[i])
      [] v.go = "map" -> \E k \in DOMAIN v.map : HasNaN(v.map[k])
      [] OTHER -> FALSE

\* formatter.Marshal: json.Marshal returns an error for a value that JSON
\* cannot represent (NaN); yaml.Marshal serializes every converted value
Marshal(formatter, v) ==
    IF formatter.Marshal = "json" /\ HasNaN(v) THEN [err |-> TRUE, data |-> <<>>]
    ELSE [err |-> FALSE, data |-> <<formatter.Marshal, v>>]

\* ------------------------------------------------------- output naming
\* output base directory: the output root joined with the directory of
\* the source file
extractOutputFilePath(outputFilePath, filename) == Join(outputFilePath, Dir(filename))

\* output base name: the file name without directory and extension
extractFilename(filename) == TrimSuffix(Base(filename), Ext(Base(filename)))

generateOutputFilename(path, filename, suffix) ==
    LET newFileName == TrimSuffix(filename, Ext(filename)) \o <<".">> \o suffix
    IN  Join(path, newFileName)

\* --------------------------------------------------- Lua state manager
\* a directory whose name holds a backslash
BackslashDir == <<"a", "\\", "b">>
VARIABLES
    calls,        \* calls made directly on LuaStateManager objects (object,
                  \* path, error) and directories created meanwhile
    cli           \* command line: positional arguments, -format, -suffix,
                  \* -override, and the files the globs expand to

\* os.Stat succeeds on the directories of the files, on BackslashDir and on
\* the directories created since
ExistingDirs ==
    {Dir(f.name) : f \in FileSystem} \cup {BackslashDir}
        \cup {calls[k].path : k \in {i \in 1..Len(calls) : calls[i].op = "mkdir"}}

RECURSIVE Escape(_)
\* strings.ReplaceAll(path, "\\", "\\\\")
Escape(path) ==
    IF path = <<>> THEN <<>>
    ELSE IF Head(path) = "\\" THEN <<"\\", "\\">> \o Escape(Tail(path))
    ELSE <<Head(path)>> \o Escape(Tail(path))

RECURSIVE LuaString(_)
\* the string a quoted Lua string literal with this text denotes: a backslash
\* and the character after it stand for that character
LuaString(text) ==
    IF text = <<>> THEN <<>>
    ELSE IF Head(text) = "\\" /\ Len(text) >= 2
    THEN <<text[2]>> \o LuaString(Tail(Tail(text)))
    ELSE <<Head(text)>> \o LuaString(Tail(text))

\* a LuaStateManager object: the interpreter (open or closed, package.path,
\* top of the stack, the global g) and the set of added paths; users,
\* closes and afterClose record which workers called a method on it, how
\* often Close was called and whether a method was called after Close
NewLuaStateManager ==
    [status |-> "open", addedPaths |-> {}, pkgPath |-> <<>>, top |-> LNil, g |-> LNil,
     override |-> <<>>,
     users |-> {}, closes |-> 0, afterClose |-> FALSE]

\* NewLuaStateManager(NewLuaStateManagerInput{override: ...}): with a
\* non-empty override suffix the custom module resolver is installed
NewLuaStateManagerInput(override) == [NewLuaStateManager EXCEPT !.override = override]

\* variant of the builder: every call returns the object built first
luaStateManagerBuilder_Shared(objects) ==
    IF objects = <<>> THEN [id |-> 1, heap |-> <<NewLuaStateManagerInput(cli.override)>>]
    ELSE [id |-> 1, heap |-> objects]

\* main's luaStateManagerBuilder: every call builds a new object
luaStateManagerBuilder(objects) ==
    [id |-> Len(objects) + 1,
     heap |-> Append(objects, NewLuaStateManagerInput(cli.override))]

\* worker w calls a method on object l
UsedBy(l, w) ==
    [l EXCEPT !.users = @ \cup {w}, !.afterClose = @ \/ l.status = "closed"]

\* the search-path entry AddPath appends: the value of the Lua string
\* literal that holds the escaped path followed by \?.lua
PathEntry(path) == LuaString(Escape(path) \o <<"\\", "?", ".", "l", "u", "a">>)

\* variant: the path is recorded before its existence is checked
AddPath_RecordFirst(l, path) ==
    IF path \in l.addedPaths THEN [err |-> FALSE, l |-> l]
    ELSE IF path \notin ExistingDirs
    THEN [err |-> TRUE, l |-> [l EXCEPT !.addedPaths = @ \cup {path}]]
    ELSE [err |-> FALSE,
          l |-> [l EXCEPT !.addedPaths = @ \cup {Escape(path)},
                          !.pkgPath = Append(@, PathEntry(path))]]

\* AddPath: result state and error flag. The path is looked up in
\* addedPaths as given; then it is escaped, appended to package.path and
\* recorded in addedPaths in its escaped form.
AddPath(l, path) ==
    IF path \in l.addedPaths THEN [err |-> FALSE, l |-> l]
    ELSE IF path \notin ExistingDirs THEN [err |-> TRUE, l |-> l]
    ELSE [err |-> FALSE,
          l |-> [l EXCEPT !.addedPaths = @ \cup {Escape(path)},
                          !.pkgPath = Append(@, PathEntry(path))]]

\* ------------------------------------------------------------ modules
\* The Lua modules that require finds through package.path: name and the
\* value the module returns.
\* m.lua: return {a = 1, nested = {x = 1, y = 2}}
ModM == [name |-> <<"m">>,
         value |-> LTable(<<>>, <<"a", "nested">>,
                          <<LNumber(1),
                            LTable(<<>>, <<"x", "y">>, <<LNumber(1), LNumber(2)>>)>>)]
\* m-p.lua: return {nested = {y = 9, z = 3}}
ModMP == [name |-> <<"m", "-", "p">>,
          value |-> LTable(<<>>, <<"nested">>,
                           <<LTable(<<>>, <<"y", "z">>, <<LNumber(9), LNumber(3)>>)>>)]
\* n.lua: return {a = 1}; there is no n-p.lua
ModN == [name |-> <<"n">>, value |-> LTable(<<>>, <<"a">>, <<LNumber(1)>>)]
\* r.lua: return {a = {x = 1}, b = 2, c = {"u"}, d = {y = 1}}
ModR == [name |-> <<"r">>,
         value |-> LTable(<<>>, <<"a", "b", "c", "d">>,
                          <<LTable(<<>>, <<"x">>, <<LNumber(1)>>), LNumber(2),
                            LTable(<<LString("u")>>, <<>>, <<>>),
                            LTable(<<>>, <<"y">>, <<LNumber(1)>>)>>)]
\* r-p.lua: return {a = 5, b = {z = 1}, c = {v = 1}}
ModRP == [name |-> <<"r", "-", "p">>,
          value |-> LTable(<<>>, <<"a", "b", "c">>,
                           <<LNumber(5), LTable(<<>>, <<"z">>, <<LNumber(1)>>),
                             LTable(<<>>, <<"v">>, <<LNumber(1)>>)>>)]
\* s.lua: return {a = 1}
ModS == [name |-> <<"s">>, value |-> LTable(<<>>, <<"a">>, <<LNumber(1)>>)]
\* s-p.lua: return {"x"}
ModSP == [name |-> <<"s", "-", "p">>, value |-> LTable(<<LString("x")>>, <<>>, <<>>)]

Modules == {ModM, ModMP, ModN, ModR, ModRP, ModS, ModSP}

HasPrefix(s, pre) == Len(pre) <= Len(s) /\ SubSeq(s, 1, Len(pre)) = pre

\* the default require: the file <name>.lua below a directory of
\* package.path ("./?.lua" first); "./<name>" names the same file as <name>
DefaultRequire(name) ==
    LET plain == IF HasPrefix(name, <<".", "/">>) THEN SubSeq(name, 3, Len(name))
                 ELSE name
    IN  IF \E m \in Modules : m.name = plain
        THEN [err |-> FALSE, value |-> (CHOOSE m \in Modules : m.name = plain).value]
        ELSE [err |-> TRUE, value |-> LNil]

\* Mapping-shaped: a table without an array part
IsMapping(v) == v.type = "table" /\ v.arr = <<>>

\* the value of key k in table t
Field(t, k) == t.vals[CHOOSE i \in 1..Len(t.keys) : t.keys[i] = k]

HasField(t, k) == \E i \in 1..Len(t.keys) : t.keys[i] = k

\* variant of the merge: the override's value replaces the base's at every
\* key of the override
DeepMerge_Shallow(base, over) ==
    LET new == SelectSeq(over.keys, LAMBDA k : ~HasField(base, k))
        keys == base.keys \o new
    IN  LTable(<<>>, keys,
               [i \in 1..Len(keys) |->
                   IF HasField(over, keys[i]) THEN Field(over, keys[i])
                   ELSE Field(base, keys[i])])

RECURSIVE DeepMerge(_, _)
\* the merge of two Mapping-shaped tables: at a key of the override the two
\* values are merged when both are Mapping-shaped, else the override's wins
DeepMerge(base, over) ==
    LET new == SelectSeq(over.keys, LAMBDA k : ~HasField(base, k))
        keys == base.keys \o new
    IN  LTable(<<>>, keys,
               [i \in 1..Len(keys) |->
                   LET k == keys[i]
                   IN  IF ~HasField(over, k) THEN Field(base, k)
                       ELSE IF HasField(base, k) /\ IsMapping(Field(base, k))
                               /\ IsMapping(Field(over, k))
                       THEN DeepMerge(Field(base, k), Field(over, k))
                       ELSE Field(over, k)])

\* variant of the resolver: relative references are resolved as by default
OverrideRequire_AllowRelative(suffix, name) ==
    LET base == DefaultRequire(name)
        over == DefaultRequire(name \o <<"-">> \o suffix)
    IN  IF base.err THEN base
        ELSE IF over.err THEN base
        ELSE IF IsMapping(base.value) /\ IsMapping(over.value)
        THEN [err |-> FALSE, value |-> DeepMerge(base.value, over.value)]
        ELSE over

\* the custom module resolver installed for an override suffix
OverrideRequire(suffix, name) ==
    IF HasPrefix(name, <<".", "/">>) THEN [err |-> TRUE, value |-> LNil]
    ELSE LET base == DefaultRequire(name)
             over == DefaultRequire(name \o <<"-">> \o suffix)
         IN  IF base.err THEN base
             ELSE IF over.err THEN base
             ELSE IF IsMapping(base.value) /\ IsMapping(over.value)
             THEN [err |-> FALSE, value |-> DeepMerge(base.value, over.value)]
             ELSE over

\* require "<name>" in the interpreter of LuaStateManager l
Require(l, name) ==
    IF l.override = <<>> THEN DefaultRequire(name)
    ELSE OverrideRequire(l.override, name)

\* RunScriptRaw: DoString runs the chunk in the given Lua state (an
\* assignment to a global stays in the state) and leaves the returned values
\* on the stack; Get(-1) reads the top of the stack (nil when it is empty)
RunScriptRaw(l, script) ==
    IF script.raises THEN [err |-> TRUE, value |-> LNil, l |-> l]
    ELSE IF script.rets # <<>> /\ script.rets[Len(script.rets)].type = "require"
    THEN LET r == Require(l, script.rets[Len(script.rets)].name)
         IN  IF r.err THEN [err |-> TRUE, value |-> LNil, l |-> l]
             ELSE [err |-> FALSE, value |-> r.value, l |-> [l EXCEPT !.top = r.value]]
    ELSE LET g == IF script.sets # LNil THEN script.sets ELSE l.g
             top == IF script.rets = <<>> THEN l.top
                    ELSE Eval(script.rets[Len(script.rets)], g)
         IN  [err |-> FALSE, value |-> top, l |-> [l EXCEPT !.top = top, !.g = g]]

\* RunScript with processValue = GetReturnedMap
RunScript(l, script) ==
    LET raw == RunScriptRaw(l, script)
        processed == GetReturnedMap(raw.value)
    IN  IF raw.err THEN [err |-> TRUE, val |-> GoNil, l |-> raw.l]
        ELSE IF processed.err THEN [err |-> TRUE, val |-> GoNil, l |-> raw.l]
        ELSE [err |-> FALSE, val |-> processed.val, l |-> raw.l]

\* LuaStateManager.Close
CloseLua(l) == [l EXCEPT !.status = "closed", !.closes = @ + 1]

\* ------------------------------------------------------------ the state
VARIABLES
    input,        \* RunInput: filenames, formatter, counts, buffer sizes, dryRun
    proc,         \* the process: "running", "panic", "exit0" or "exit1"
    mpc,          \* position of the goroutine that called run()
    ppc, pidx, pjob,              \* producer: position, loop index, job to send
    dataInputChannel, inClosed,   \* job channel: buffer, closed flag
    wpc, wjob, wres, wg,          \* workers and their wait-group
    luaStateManager,              \* per worker: its LuaStateManager (0: none yet)
    heap,                         \* the LuaStateManager objects built so far
    cpc,                          \* goroutine that closes the result channel
    dataOutputChannel, outClosed, \* result channel: buffer, closed flag
    wrpc, wrItem, writeWaitGroup, \* writers and their wait-group
    sentJobs, jobRecv, emitted, resRecv,  \* per job: sends and receives so far
    events,       \* per job: what has been done with it, in order
    writeLog, marshalLog, printed,        \* calls of WriteFile, Marshal, Println
    inCloses, outCloses                   \* number of close() calls

\* Components verified on their own: Poolable with its caller.
VARIABLES
    maxWorkers,       \* Poolable: Run's maxWorkers
    items,            \* number of work items the caller sends
    sender,           \* the caller: position and index of the next item
    workClosed,       \* the work channel is closed
    runner,           \* the goroutine executing Run: position and work item
    workerChannel,    \* number of worker slots taken
    poolWg,           \* counter of Poolable's wait group
    task,             \* per item: progress of the goroutine launched for it
    received,         \* per item: times Run received it
    invocations,      \* per item: calls of workerFunc
    resultsClosed     \* the result channel is closed

poolableVars == <<maxWorkers, items, sender, workClosed, runner, workerChannel, poolWg,
                  task, received, invocations, resultsClosed>>

\* LuaStateManagerPool with its users.
VARIABLES
    statePool,        \* the pool: its size field and the states in its sync.Pool
    taken,            \* states obtained with Get and not yet Put back
    closedStates,     \* states whose Lua state Close has closed
    closer            \* the call of Close: position and loop variable i

lsmpVars == <<statePool, taken, closedStates, closer>>

\* MemoryFileProcessor with its callers.
VARIABLES
    memory,           \* the processor: its data map, and whether it is the nil map
    written,          \* per path: the data of the last WriteFile call
    memCall           \* the last call: its arguments, its outcome, data before it

memVars == <<memory, written, memCall>>

unitVars == <<poolableVars, lsmpVars, memVars>>

pipelineVars ==
    <<calls, events, cli, input, proc, mpc, ppc, pidx, pjob, dataInputChannel, inClosed,
      wpc, wjob, wres, luaStateManager, heap, wg, cpc, dataOutputChannel,
      outClosed, wrpc, wrItem, writeWaitGroup, sentJobs, jobRecv, emitted,
      resRecv, writeLog, marshalLog, printed, inCloses, outCloses>>

vars == <<pipelineVars, unitVars>>

chanVars == <<dataInputChannel, inClosed, dataOutputChannel, outClosed>>
producerVars == <<ppc, pidx, pjob>>
workerVars == <<wpc, wjob, wres, luaStateManager, heap, wg>>
writerVars == <<wrpc, wrItem, writeWaitGroup>>
logVars == <<writeLog, marshalLog, printed>>
countVars == <<sentJobs, jobRecv, emitted, resRecv>>
closeVars == <<inCloses, outCloses>>

Workers == 1..MaxWorkers
Writers == 1..MaxWriters
FileNames == {f.name : f \in FileSystem}
FileLists == UNION {[1..n -> FileNames] : n \in 0..MaxFiles}

NoJob == [id |-> 0]

\* lists of at most one file
ShortLists == UNION {[1..n -> FileNames] : n \in 0..1}

\* command lines: without a positional argument nothing is expanded
CommandLines(formats, suffixes, lists) ==
    {c \in [nargs : 0..1, format : formats, suffix : suffixes, override : {<<>>},
            found : lists] :
        c.nargs = 0 => c.found = <<>>}

\* the inputs of run(): main's defaults are 2 workers and 1 writer
RunInputs(lists) ==
    [filenames : lists,
     formatter : {NoFormatter},
     inputChannelBufferSize : 0..MaxBuf,
     outputChannelBufferSize : 0..MaxBuf,
     workerCount : 1..MaxWorkers,
     writerCount : 1..MaxWriters,
     dryRun : BOOLEAN]

\* one worker, one writer, unbuffered channels
SmallRunInputs ==
    {r \in RunInputs({<<>>}) :
        /\ r.workerCount = 1 /\ r.writerCount = 1
        /\ r.inputChannelBufferSize = 0 /\ r.outputChannelBufferSize = 0}

\* the process at the start of main: filenames and formatter are filled in
\* by main before it calls run()
\* no goroutine of run() exists yet
NotStarted ==
    /\ ppc = "none" /\ pidx = 1 /\ pjob = NoJob
    /\ dataInputChannel = <<>> /\ inClosed = FALSE
    /\ wpc = [w \in Workers |-> "none"]
    /\ wjob = [w \in Workers |-> NoJob]
    /\ wres = [w \in Workers |-> NoJob]
    /\ luaStateManager = [w \in Workers |-> 0]
    /\ wg = 0
    /\ cpc = "none"
    /\ dataOutputChannel = <<>> /\ outClosed = FALSE
    /\ wrpc = [i \in Writers |-> "none"]
    /\ wrItem = [i \in Writers |-> NoJob]
    /\ writeWaitGroup = 0
    /\ sentJobs = [j \in 1..MaxFiles |-> 0]
    /\ jobRecv = [j \in 1..MaxFiles |-> 0]
    /\ emitted = [j \in 1..MaxFiles |-> 0]
    /\ resRecv = [j \in 1..MaxFiles |-> 0]
    /\ events = [j \in 1..MaxFiles |-> <<>>]
    /\ writeLog = <<>> /\ marshalLog = 0 /\ printed = <<>>
    /\ inCloses = 0 /\ outCloses = 0

\* Poolable is not in use
PoolableIdle ==
    /\ maxWorkers = 1 /\ items = 0
    /\ sender = [pc |-> "none", k |-> 1]
    /\ workClosed = FALSE
    /\ runner = [pc |-> "none", work |-> 0]
    /\ workerChannel = 0 /\ poolWg = 0
    /\ task = <<>> /\ received = <<>> /\ invocations = <<>>
    /\ resultsClosed = FALSE

\* no LuaStateManagerPool is in use
LsmpIdle ==
    /\ statePool = [size |-> 0, pool |-> {}]
    /\ taken = {} /\ closedStates = {}
    /\ closer = [pc |-> "none", i |-> 0, full |-> FALSE]

\* no MemoryFileProcessor is in use
MemoryIdle ==
    /\ memory = [nil |-> TRUE, data |-> <<>>]
    /\ written = <<>>
    /\ memCall = [op |-> "none", path |-> <<>>, data |-> "", err |-> FALSE,
                  result |-> <<>>, before |-> <<>>, panicked |-> FALSE]

UnitIdle == PoolableIdle /\ LsmpIdle /\ MemoryIdle

InitWith(lines, inputs) ==
    /\ UnitIdle
    /\ cli \in lines
    /\ input \in inputs
    /\ calls = <<>>
    /\ heap = <<>>
    /\ proc = "running"
    /\ mpc = "main"
    /\ NotStarted

\* every pipeline configuration with -format json and no -suffix, and every
\* command line with the smallest pipeline
Init ==
    \/ InitWith({c \in CommandLines({json}, {<<>>}, FileLists) : c.nargs = 1},
                RunInputs({<<>>}))
    \/ InitWith(CommandLines(Formats, Suffixes, ShortLists), SmallRunInputs)

Running == proc = "running"

\* --------------------------------------- when each step can be taken
\* A goroutine's step needs the process alive, the goroutine at that
\* statement and, for a channel operation or a Wait, the condition under
\* which the operation does not block.
CanMainStart == Running /\ mpc = "main"
CanRunStart == Running /\ mpc = "start"
CanProducerRead == Running /\ ppc = "read" /\ pidx <= Len(input.filenames)
CanProducerSend ==
    /\ Running /\ ppc = "send"
    /\ inClosed \/ Len(dataInputChannel) < input.inputChannelBufferSize
CanProducerClose ==
    /\ Running
    /\ \/ ppc = "stopped"
       \/ ppc = "read" /\ pidx > Len(input.filenames)
CanWorkerInit(w) == Running /\ wpc[w] = "init"
CanWorkerReceive(w) == Running /\ wpc[w] = "recv" /\ dataInputChannel # <<>>
CanJobHandoff(w) ==
    /\ Running /\ ppc = "send" /\ wpc[w] = "recv"
    /\ input.inputChannelBufferSize = 0 /\ ~inClosed
CanWorkerRun(w) == Running /\ wpc[w] = "run"
CanWorkerSend(w) ==
    /\ Running /\ wpc[w] = "send"
    /\ outClosed \/ Len(dataOutputChannel) < input.outputChannelBufferSize
CanWorkerShutdown(w) ==
    /\ Running /\ wpc[w] = "recv"
    /\ inClosed /\ dataInputChannel = <<>>
CanCloseResults == Running /\ cpc = "wait" /\ wg = 0
CanMainBranch == Running /\ mpc = "branch"
CanDryReceive == Running /\ mpc = "dry" /\ dataOutputChannel # <<>>
CanDryHandoff(w) ==
    /\ Running /\ mpc = "dry" /\ wpc[w] = "send"
    /\ input.outputChannelBufferSize = 0 /\ ~outClosed
CanDryExit == Running /\ mpc = "dry" /\ outClosed /\ dataOutputChannel = <<>>
CanWriterReceive(i) == Running /\ wrpc[i] = "recv" /\ dataOutputChannel # <<>>
CanWriterHandoff(w, i) ==
    /\ Running /\ wrpc[i] = "recv" /\ wpc[w] = "send"
    /\ input.outputChannelBufferSize = 0 /\ ~outClosed
CanWriterWrite(i) == Running /\ wrpc[i] = "write"
CanWriterExit(i) ==
    /\ Running /\ wrpc[i] = "recv"
    /\ outClosed /\ dataOutputChannel = <<>>
CanMainWait == Running /\ mpc = "wait" /\ writeWaitGroup = 0
CanMainExit == Running /\ mpc = "returned"

\* some goroutine can take a step
CanStep ==
    \/ CanMainStart \/ CanRunStart \/ CanProducerRead \/ CanProducerSend
    \/ CanProducerClose
    \/ CanCloseResults \/ CanMainBranch \/ CanDryReceive \/ CanDryExit
    \/ CanMainWait \/ CanMainExit
    \/ \E w \in Workers :
          \/ CanWorkerInit(w) \/ CanWorkerReceive(w) \/ CanJobHandoff(w)
          \/ CanWorkerRun(w) \/ CanWorkerSend(w) \/ CanWorkerShutdown(w)
          \/ CanDryHandoff(w)
          \/ \E i \in Writers : CanWriterHandoff(w, i)
    \/ \E i \in Writers :
          CanWriterReceive(i) \/ CanWriterWrite(i) \/ CanWriterExit(i)

\* ---------------------------------------------------------------- main
\* main up to the call of run(): without a positional argument it prints
\* the usage and returns; FindFiles; getFormatter, whose error goes to
\* handleError and exit (status 1); else run() is called
MainStart ==
    /\ CanMainStart
    /\ IF cli.nargs < 1
       THEN /\ mpc' = "stopped"
            /\ proc' = "exit0"
            /\ input' = input
       ELSE LET f == getFormatter(cli.format, cli.suffix)
            IN  IF f.err
                THEN /\ mpc' = "stopped"
                     /\ proc' = "exit1"
                     /\ input' = [input EXCEPT !.filenames = cli.found]
                ELSE /\ mpc' = "start"
                     /\ proc' = proc
                     /\ input' = [input EXCEPT !.filenames = cli.found,
                                               !.formatter = f.formatter]
    /\ UNCHANGED <<unitVars, cli, calls, events, producerVars, chanVars, workerVars, cpc, writerVars,
                   countVars, logVars, closeVars>>

\* ------------------------------------------------------- run(): set-up
\* make both channels, wg.Add(workerCount), start the workers, the
\* producer and the goroutine that closes the result channel
RunStart ==
    /\ CanRunStart
    /\ wg' = wg + input.workerCount
    /\ wpc' = [w \in Workers |-> IF w <= input.workerCount THEN "init" ELSE "none"]
    /\ ppc' = "read"
    /\ cpc' = "wait"
    /\ mpc' = "branch"
    /\ UNCHANGED <<unitVars, input, cli, calls, events, proc, pidx, pjob, chanVars, wjob, wres, luaStateManager, heap,
                   writerVars, countVars, logVars, closeVars>>

\* ------------------------------------------------------------ producer
\* variant: a read error skips the file (continue) instead of stopping
ProducerRead_Continue ==
    /\ Running /\ ppc = "read" /\ pidx <= Len(input.filenames)
    /\ LET filename == input.filenames[pidx]
           r == ReadFile(filename)
       IN  IF r.err
           THEN /\ ppc' = "read"
                /\ pidx' = pidx + 1
                /\ pjob' = pjob
           ELSE /\ ppc' = "send"
                /\ pidx' = pidx
                /\ pjob' = [id |-> pidx,
                            Filename |-> filename,
                            FilePath |-> GetPathToFile(filename),
                            OutputFilePath |-> extractOutputFilePath(OutputRoot, filename),
                            OutputFilename |-> extractFilename(filename),
                            OutputFileSuffix |-> input.formatter.suffix,
                            Data |-> r.data]
    /\ UNCHANGED <<unitVars, input, cli, calls, events, proc, mpc, chanVars, workerVars, cpc, writerVars,
                   countVars, logVars, closeVars>>

\* one iteration up to the send: ReadFile, stop on error, else build the job
ProducerRead ==
    /\ CanProducerRead
    /\ LET filename == input.filenames[pidx]
           r == ReadFile(filename)
       IN  IF r.err
           THEN /\ ppc' = "stopped"
                /\ pjob' = pjob
           ELSE /\ ppc' = "send"
                /\ pjob' = [id |-> pidx,
                            Filename |-> filename,
                            FilePath |-> GetPathToFile(filename),
                            OutputFilePath |-> extractOutputFilePath(OutputRoot, filename),
                            OutputFilename |-> extractFilename(filename),
                            OutputFileSuffix |-> input.formatter.suffix,
                            Data |-> r.data]
    /\ UNCHANGED <<unitVars, input, cli, calls, events, proc, mpc, pidx, chanVars, workerVars, cpc, writerVars,
                   countVars, logVars, closeVars>>

AfterSend == 
    /\ ppc' = "read"
    /\ pidx' = pidx + 1
    /\ pjob' = NoJob
    /\ sentJobs' = [sentJobs EXCEPT ![pjob.id] = @ + 1]
    /\ events' = [events EXCEPT ![pjob.id] = Append(@, "produce")]

\* variant: the send never blocks, a job that finds no free slot is dropped
ProducerSend_NoBlock ==
    /\ Running /\ ppc = "send" /\ ~inClosed
    /\ dataInputChannel' = IF Len(dataInputChannel) < input.inputChannelBufferSize
                           THEN Append(dataInputChannel, pjob)
                           ELSE dataInputChannel
    /\ AfterSend
    /\ UNCHANGED <<unitVars, input, cli, calls, proc, mpc, inClosed, dataOutputChannel, outClosed,
                   workerVars, cpc, writerVars, jobRecv, emitted, resRecv, logVars,
                   closeVars>>

\* variant: the send does not wait for a free slot of the buffer
ProducerSend_Unbounded ==
    /\ Running /\ ppc = "send" /\ ~inClosed
    /\ dataInputChannel' = Append(dataInputChannel, pjob)
    /\ AfterSend
    /\ UNCHANGED <<unitVars, input, cli, calls, proc, mpc, inClosed, dataOutputChannel, outClosed,
                   workerVars, cpc, writerVars, jobRecv, emitted, resRecv, logVars,
                   closeVars>>

\* dataInputChannel <- job, into the buffer
ProducerSend ==
    /\ CanProducerSend
    /\ IF inClosed
       THEN /\ proc' = "panic"
            /\ UNCHANGED <<producerVars, dataInputChannel, sentJobs, events>>
       ELSE /\ Len(dataInputChannel) < input.inputChannelBufferSize
            /\ dataInputChannel' = Append(dataInputChannel, pjob)
            /\ AfterSend
            /\ proc' = proc
    /\ UNCHANGED <<unitVars, input, cli, calls, mpc, inClosed, dataOutputChannel, outClosed, workerVars,
                   cpc, writerVars, jobRecv, emitted, resRecv, logVars, closeVars>>

\* variant: the producer returns without closing the job channel
ProducerClose_Forget ==
    /\ Running
    /\ \/ ppc = "stopped"
       \/ ppc = "read" /\ pidx > Len(input.filenames)
    /\ ppc' = "done"
    /\ UNCHANGED <<unitVars, input, cli, calls, events, proc, mpc, pidx, pjob, chanVars, workerVars, cpc,
                   writerVars, countVars, logVars, closeVars>>

\* deferred close(dataInputChannel), after the loop or after a read error
ProducerClose ==
    /\ CanProducerClose
    /\ ppc' = "done"
    /\ inCloses' = inCloses + 1
    /\ IF inClosed THEN proc' = "panic" /\ inClosed' = inClosed
       ELSE proc' = proc /\ inClosed' = TRUE
    /\ UNCHANGED <<unitVars, input, cli, calls, events, mpc, pidx, pjob, dataInputChannel, dataOutputChannel,
                   outClosed, workerVars, cpc, writerVars, countVars, logVars,
                   outCloses>>

\* -------------------------------------------------------------- workers
\* luaStateManager := input.luaStateManagerBuilder()
WorkerInit(w) ==
    /\ CanWorkerInit(w)
    /\ LET built == luaStateManagerBuilder(heap)
       IN  /\ luaStateManager' = [luaStateManager EXCEPT ![w] = built.id]
           /\ heap' = built.heap
    /\ wpc' = [wpc EXCEPT ![w] = "recv"]
    /\ UNCHANGED <<unitVars, input, cli, calls, events, proc, mpc, producerVars, chanVars, wjob, wres, wg, cpc,
                   writerVars, countVars, logVars, closeVars>>

TakeJob(w, job) ==
    /\ wjob' = [wjob EXCEPT ![w] = job]
    /\ wpc' = [wpc EXCEPT ![w] = "run"]
    /\ jobRecv' = [jobRecv EXCEPT ![job.id] = @ + 1]

\* variant: reads the head of the buffer without removing it
WorkerReceive_Peek(w) ==
    /\ Running /\ wpc[w] = "recv"
    /\ dataInputChannel # <<>>
    /\ TakeJob(w, Head(dataInputChannel))
    /\ UNCHANGED <<unitVars, input, cli, calls, events, proc, mpc, producerVars, chanVars, wres, luaStateManager, heap,
                   wg, cpc, writerVars, sentJobs, emitted, resRecv, logVars,
                   closeVars>>

\* for job := range jobs, from the buffer
WorkerReceive(w) ==
    /\ CanWorkerReceive(w)
    /\ TakeJob(w, Head(dataInputChannel))
    /\ dataInputChannel' = Tail(dataInputChannel)
    /\ UNCHANGED <<unitVars, input, cli, calls, events, proc, mpc, producerVars, inClosed, dataOutputChannel,
                   outClosed, wres, luaStateManager, heap, wg, cpc, writerVars,
                   sentJobs, emitted, resRecv, logVars, closeVars>>

\* unbuffered job channel: the producer's send meets a worker's receive
JobHandoff(w) ==
    /\ CanJobHandoff(w)
    /\ TakeJob(w, pjob)
    /\ AfterSend
    /\ UNCHANGED <<unitVars, input, cli, calls, proc, mpc, chanVars, wres, luaStateManager, heap, wg, cpc,
                   writerVars, emitted, resRecv, logVars, closeVars>>

\* variant of the worker: on an error it drops the job and goes on receiving
WorkerRun_Skip(w) ==
    /\ CanWorkerRun(w)
    /\ LET job == wjob[w]
           added == AddPath(UsedBy(heap[luaStateManager[w]], w), job.FilePath)
           r == RunScript(added.l, job.Data)
       IN  /\ heap' = [heap EXCEPT ![luaStateManager[w]] = r.l]
           /\ luaStateManager' = luaStateManager
           /\ events' = [events EXCEPT ![job.id] =
                             @ \o (IF RunScriptRaw(added.l, job.Data).err
                                   THEN <<"execute">>
                                   ELSE <<"execute", "convert">>)]
           /\ IF r.err \/ r.val = GoPanic
              THEN /\ wpc' = [wpc EXCEPT ![w] = "recv"]
                   /\ wjob' = [wjob EXCEPT ![w] = NoJob]
                   /\ UNCHANGED wres
              ELSE /\ wpc' = [wpc EXCEPT ![w] = "send"]
                   /\ wres' = [wres EXCEPT ![w] = [job EXCEPT !.Data = r.val]]
                   /\ UNCHANGED wjob
    /\ UNCHANGED <<unitVars, input, cli, calls, proc, mpc, producerVars, chanVars, wg, cpc, writerVars,
                   countVars, logVars, closeVars>>

\* variant: the worker panics when AddPath returns an error
WorkerRun_AddPathFatal(w) ==
    /\ CanWorkerRun(w)
    /\ LET job == wjob[w]
           added == AddPath(UsedBy(heap[luaStateManager[w]], w), job.FilePath)
           r == RunScript(added.l, job.Data)
       IN  /\ heap' = [heap EXCEPT ![luaStateManager[w]] = r.l]
           /\ luaStateManager' = luaStateManager
           /\ events' = [events EXCEPT ![job.id] =
                             @ \o (IF RunScriptRaw(added.l, job.Data).err
                                   THEN <<"execute">>
                                   ELSE <<"execute", "convert">>)]
           /\ IF added.err \/ r.err \/ r.val = GoPanic
              THEN /\ proc' = "panic"
                   /\ wpc' = [wpc EXCEPT ![w] = "failed"]
                   /\ UNCHANGED wres
              ELSE /\ proc' = proc
                   /\ wpc' = [wpc EXCEPT ![w] = "send"]
                   /\ wres' = [wres EXCEPT ![w] = [job EXCEPT !.Data = r.val]]
    /\ UNCHANGED <<unitVars, input, cli, calls, mpc, producerVars, chanVars, wjob, wg, cpc, writerVars,
                   countVars, logVars, closeVars>>

\* AddPath (its error is dropped), RunScript, panic on error, else build
\* the result
WorkerRun(w) ==
    /\ CanWorkerRun(w)
    /\ LET job == wjob[w]
           added == AddPath(UsedBy(heap[luaStateManager[w]], w), job.FilePath)
           r == RunScript(added.l, job.Data)
       IN  /\ heap' = [heap EXCEPT ![luaStateManager[w]] = r.l]
           /\ luaStateManager' = luaStateManager
           /\ events' = [events EXCEPT ![job.id] =
                             @ \o (IF RunScriptRaw(added.l, job.Data).err
                                   THEN <<"execute">>
                                   ELSE <<"execute", "convert">>)]
           /\ IF r.err \/ r.val = GoPanic
              THEN /\ proc' = "panic"
                   /\ wpc' = [wpc EXCEPT ![w] = "failed"]
                   /\ UNCHANGED wres
              ELSE /\ proc' = proc
                   /\ wpc' = [wpc EXCEPT ![w] = "send"]
                   /\ wres' = [wres EXCEPT ![w] =
                                 [id |-> job.id,
                                  Filename |-> job.Filename,
                                  FilePath |-> job.FilePath,
                                  OutputFilePath |-> job.OutputFilePath,
                                  OutputFilename |-> job.OutputFilename,
                                  OutputFileSuffix |-> job.OutputFileSuffix,
                                  Data |-> r.val]]
    /\ UNCHANGED <<unitVars, input, cli, calls, mpc, producerVars, chanVars, wjob, wg, cpc, writerVars,
                   countVars, logVars, closeVars>>

AfterEmit(w) ==
    /\ wpc' = [wpc EXCEPT ![w] = "recv"]
    /\ wjob' = [wjob EXCEPT ![w] = NoJob]
    /\ wres' = [wres EXCEPT ![w] = NoJob]
    /\ emitted' = [emitted EXCEPT ![wres[w].id] = @ + 1]
    /\ events' = [events EXCEPT ![wres[w].id] = Append(@, "emit")]

\* variant: the worker emits a result for its job without running the script
WorkerSend_Early(w) ==
    /\ Running /\ wpc[w] \in {"run", "send"} /\ ~outClosed
    /\ Len(dataOutputChannel) < input.outputChannelBufferSize
    /\ dataOutputChannel' = Append(dataOutputChannel,
                                   IF wpc[w] = "send" THEN wres[w]
                                   ELSE [wjob[w] EXCEPT !.Data = GoNil])
    /\ wpc' = [wpc EXCEPT ![w] = "recv"]
    /\ wjob' = [wjob EXCEPT ![w] = NoJob]
    /\ wres' = [wres EXCEPT ![w] = NoJob]
    /\ emitted' = [emitted EXCEPT ![wjob[w].id] = @ + 1]
    /\ events' = [events EXCEPT ![wjob[w].id] = Append(@, "emit")]
    /\ proc' = proc
    /\ UNCHANGED <<unitVars, input, cli, calls, mpc, producerVars, dataInputChannel, inClosed, outClosed,
                   luaStateManager, heap, wg, cpc, writerVars, sentJobs, jobRecv,
                   resRecv, logVars, closeVars>>

\* results <- OutputFileData{...}, into the buffer; a send on a closed
\* channel panics
WorkerSend(w) ==
    /\ CanWorkerSend(w)
    /\ IF outClosed
       THEN /\ proc' = "panic"
            /\ UNCHANGED <<wpc, wjob, wres, emitted, events, dataOutputChannel>>
       ELSE /\ Len(dataOutputChannel) < input.outputChannelBufferSize
            /\ dataOutputChannel' = Append(dataOutputChannel, wres[w])
            /\ AfterEmit(w)
            /\ proc' = proc
    /\ UNCHANGED <<unitVars, input, cli, calls, mpc, producerVars, dataInputChannel, inClosed, outClosed,
                   luaStateManager, heap, wg, cpc, writerVars, sentJobs, jobRecv,
                   resRecv, logVars, closeVars>>

\* variant: the worker leaves its loop as soon as the buffer is empty
WorkerShutdown_OnEmpty(w) ==
    /\ Running /\ wpc[w] = "recv"
    /\ dataInputChannel = <<>>
    /\ heap' = [heap EXCEPT ![luaStateManager[w]] = CloseLua(UsedBy(@, w))]
    /\ luaStateManager' = luaStateManager
    /\ wpc' = [wpc EXCEPT ![w] = "done"]
    /\ wg' = wg - 1
    /\ proc' = IF wg - 1 < 0 THEN "panic" ELSE proc
    /\ UNCHANGED <<unitVars, input, cli, calls, events, mpc, producerVars, chanVars, wjob, wres, cpc, writerVars,
                   countVars, logVars, closeVars>>

\* variant: the worker returns without closing its Lua state
WorkerShutdown_NoClose(w) ==
    /\ CanWorkerShutdown(w)
    /\ wpc' = [wpc EXCEPT ![w] = "done"]
    /\ wg' = wg - 1
    /\ proc' = IF wg - 1 < 0 THEN "panic" ELSE proc
    /\ UNCHANGED <<unitVars, input, cli, calls, events, mpc, producerVars, chanVars, wjob, wres, luaStateManager,
                   heap, cpc, writerVars, countVars, logVars, closeVars>>

\* the range loop ends (the job channel is closed and drained), then
\* luaStateManager.Close() and the deferred wg.Done()
WorkerShutdown(w) ==
    /\ CanWorkerShutdown(w)
    /\ heap' = [heap EXCEPT ![luaStateManager[w]] = CloseLua(UsedBy(@, w))]
    /\ luaStateManager' = luaStateManager
    /\ wpc' = [wpc EXCEPT ![w] = "done"]
    /\ wg' = wg - 1
    /\ proc' = IF wg - 1 < 0 THEN "panic" ELSE proc
    /\ UNCHANGED <<unitVars, input, cli, calls, events, mpc, producerVars, chanVars, wjob, wres, cpc, writerVars,
                   countVars, logVars, closeVars>>

\* ------------------------------------------- closing the result channel
\* variant: the result channel is closed without waiting for the workers
CloseResults_NoWait ==
    /\ Running /\ cpc = "wait"
    /\ cpc' = "done"
    /\ outCloses' = outCloses + 1
    /\ IF outClosed THEN proc' = "panic" /\ outClosed' = outClosed
       ELSE proc' = proc /\ outClosed' = TRUE
    /\ UNCHANGED <<unitVars, input, cli, calls, events, mpc, producerVars, dataInputChannel, inClosed,
                   dataOutputChannel, workerVars, writerVars, countVars, logVars,
                   inCloses>>

\* wg.Wait() returns, then close(dataOutputChannel)
CloseResults ==
    /\ CanCloseResults
    /\ cpc' = "done"
    /\ outCloses' = outCloses + 1
    /\ IF outClosed THEN proc' = "panic" /\ outClosed' = outClosed
       ELSE proc' = proc /\ outClosed' = TRUE
    /\ UNCHANGED <<unitVars, input, cli, calls, events, mpc, producerVars, dataInputChannel, inClosed,
                   dataOutputChannel, workerVars, writerVars, countVars, logVars,
                   inCloses>>

\* ------------------------------------------------- run(): the consumers
\* variant: the dry-run flag is ignored and the writers are started
MainBranch_AlwaysWrite ==
    /\ Running /\ mpc = "branch"
    /\ mpc' = "wait"
    /\ writeWaitGroup' = writeWaitGroup + input.writerCount
    /\ wrpc' = [i \in Writers |-> IF i <= input.writerCount THEN "recv" ELSE "none"]
    /\ UNCHANGED <<unitVars, input, cli, calls, events, proc, producerVars, chanVars, workerVars, cpc, wrItem,
                   countVars, logVars, closeVars>>

\* if input.dryRun { range loop } else { Add(writerCount); start writers }
MainBranch ==
    /\ CanMainBranch
    /\ IF input.dryRun
       THEN /\ mpc' = "dry"
            /\ UNCHANGED <<wrpc, writeWaitGroup>>
       ELSE /\ mpc' = "wait"
            /\ writeWaitGroup' = writeWaitGroup + input.writerCount
            /\ wrpc' = [i \in Writers |-> IF i <= input.writerCount THEN "recv" ELSE "none"]
    /\ UNCHANGED <<unitVars, input, cli, calls, events, proc, producerVars, chanVars, workerVars, cpc, wrItem,
                   countVars, logVars, closeVars>>

\* the line the dry-run consumer prints for a result
DryRunLine(fileData) == fileData.Filename

DryTake(fileData) ==
    /\ printed' = Append(printed, [id |-> fileData.id, line |-> DryRunLine(fileData)])
    /\ resRecv' = [resRecv EXCEPT ![fileData.id] = @ + 1]

\* dry run: for fileData := range dataOutputChannel { Println(...) }
DryReceive ==
    /\ CanDryReceive
    /\ DryTake(Head(dataOutputChannel))
    /\ dataOutputChannel' = Tail(dataOutputChannel)
    /\ UNCHANGED <<unitVars, input, cli, calls, events, proc, mpc, producerVars, dataInputChannel, inClosed,
                   outClosed, workerVars, cpc, writerVars, sentJobs, jobRecv,
                   emitted, writeLog, marshalLog, closeVars>>

\* dry run, unbuffered result channel: a worker's send meets the receive
DryHandoff(w) ==
    /\ CanDryHandoff(w)
    /\ DryTake(wres[w])
    /\ AfterEmit(w)
    /\ UNCHANGED <<unitVars, input, cli, calls, proc, mpc, producerVars, chanVars, luaStateManager, heap, wg,
                   cpc, writerVars, sentJobs, jobRecv, writeLog, marshalLog,
                   closeVars>>

\* dry run: the range loop ends and run() returns
DryExit ==
    /\ CanDryExit
    /\ mpc' = "returned"
    /\ UNCHANGED <<unitVars, input, cli, calls, events, proc, producerVars, chanVars, workerVars, cpc,
                   writerVars, countVars, logVars, closeVars>>

WriterTake(i, fileData) ==
    /\ wrItem' = [wrItem EXCEPT ![i] = fileData]
    /\ wrpc' = [wrpc EXCEPT ![i] = "write"]
    /\ resRecv' = [resRecv EXCEPT ![fileData.id] = @ + 1]

\* writer: for fileData := range dataOutputChannel, from the buffer
WriterReceive(i) ==
    /\ CanWriterReceive(i)
    /\ WriterTake(i, Head(dataOutputChannel))
    /\ dataOutputChannel' = Tail(dataOutputChannel)
    /\ UNCHANGED <<unitVars, input, cli, calls, events, proc, mpc, producerVars, dataInputChannel, inClosed,
                   outClosed, workerVars, cpc, writeWaitGroup, sentJobs, jobRecv,
                   emitted, logVars, closeVars>>

\* unbuffered result channel: a worker's send meets a writer's receive
WriterHandoff(w, i) ==
    /\ CanWriterHandoff(w, i)
    /\ WriterTake(i, wres[w])
    /\ AfterEmit(w)
    /\ UNCHANGED <<unitVars, input, cli, calls, proc, mpc, producerVars, chanVars, luaStateManager, heap, wg,
                   cpc, writeWaitGroup, sentJobs, jobRecv, logVars, closeVars>>

\* the path a writer passes to WriteFile
WriterPath(fileData) ==
    generateOutputFilename(fileData.OutputFilePath, fileData.Filename,
                           fileData.OutputFileSuffix)

\* variant of the writer: on an error it drops the result and goes on
WriterWrite_Skip(i) ==
    /\ CanWriterWrite(i)
    /\ marshalLog' = marshalLog + 1
    /\ events' = [events EXCEPT ![wrItem[i].id] =
                      @ \o (IF Marshal(input.formatter, wrItem[i].Data).err
                            THEN <<"marshal">> ELSE <<"marshal", "write">>)]
    /\ writeLog' = IF Marshal(input.formatter, wrItem[i].Data).err \/ WriteFileFails(WriterPath(wrItem[i]))
                   THEN writeLog
                   ELSE Append(writeLog, [id |-> wrItem[i].id,
                                          path |-> WriterPath(wrItem[i]),
                                          data |-> Marshal(input.formatter, wrItem[i].Data).data])
    /\ wrpc' = [wrpc EXCEPT ![i] = "recv"]
    /\ wrItem' = [wrItem EXCEPT ![i] = NoJob]
    /\ UNCHANGED <<unitVars, input, cli, calls, proc, mpc, producerVars, chanVars, workerVars, cpc,
                   writeWaitGroup, countVars, printed, closeVars>>

\* writer loop body: file name, Marshal, WriteFile; either error panics
WriterWrite(i) ==
    /\ CanWriterWrite(i)
    /\ LET fileData == wrItem[i]
           fileName == WriterPath(fileData)
           formatted == Marshal(input.formatter, fileData.Data)
       IN  /\ marshalLog' = marshalLog + 1
           /\ events' = [events EXCEPT ![fileData.id] =
                             @ \o (IF formatted.err THEN <<"marshal">>
                                   ELSE <<"marshal", "write">>)]
           /\ IF formatted.err
              THEN /\ proc' = "panic"
                   /\ wrpc' = [wrpc EXCEPT ![i] = "failed"]
                   /\ UNCHANGED <<writeLog, wrItem>>
              ELSE /\ writeLog' = Append(writeLog, [id |-> fileData.id,
                                                    path |-> fileName,
                                                    data |-> formatted.data])
                   /\ IF WriteFileFails(fileName)
                      THEN /\ proc' = "panic"
                           /\ wrpc' = [wrpc EXCEPT ![i] = "failed"]
                           /\ UNCHANGED wrItem
                      ELSE /\ proc' = proc
                           /\ wrpc' = [wrpc EXCEPT ![i] = "recv"]
                           /\ wrItem' = [wrItem EXCEPT ![i] = NoJob]
    /\ UNCHANGED <<unitVars, input, cli, calls, mpc, producerVars, chanVars, workerVars, cpc,
                   writeWaitGroup, countVars, printed, closeVars>>

\* writer: the range loop ends, deferred writeWaitGroup.Done()
WriterExit(i) ==
    /\ CanWriterExit(i)
    /\ wrpc' = [wrpc EXCEPT ![i] = "done"]
    /\ writeWaitGroup' = writeWaitGroup - 1
    /\ proc' = IF writeWaitGroup - 1 < 0 THEN "panic" ELSE proc
    /\ UNCHANGED <<unitVars, input, cli, calls, events, mpc, producerVars, chanVars, workerVars, cpc, wrItem,
                   countVars, logVars, closeVars>>

\* variant: run() returns without waiting for the writers
MainWait_NoWait ==
    /\ Running /\ mpc = "wait"
    /\ mpc' = "returned"
    /\ UNCHANGED <<unitVars, input, cli, calls, events, proc, producerVars, chanVars, workerVars, cpc,
                   writerVars, countVars, logVars, closeVars>>

\* writeWaitGroup.Wait() returns and run() returns
MainWait ==
    /\ CanMainWait
    /\ mpc' = "returned"
    /\ UNCHANGED <<unitVars, input, cli, calls, events, proc, producerVars, chanVars, workerVars, cpc,
                   writerVars, countVars, logVars, closeVars>>

\* main prints "All jobs are done" and returns: the process ends and takes
\* every goroutine still alive with it
MainExit ==
    /\ CanMainExit
    /\ mpc' = "exited"
    /\ proc' = "exit0"
    /\ UNCHANGED <<unitVars, input, cli, calls, events, producerVars, chanVars, workerVars, cpc, writerVars,
                   countVars, logVars, closeVars>>

Next ==
    \/ MainStart
    \/ RunStart
    \/ ProducerRead
    \/ ProducerSend
    \/ ProducerClose
    \/ \E w \in Workers : WorkerInit(w)
    \/ \E w \in Workers : WorkerReceive(w)
    \/ \E w \in Workers : JobHandoff(w)
    \/ \E w \in Workers : WorkerRun(w)
    \/ \E w \in Workers : WorkerSend(w)
    \/ \E w \in Workers : WorkerShutdown(w)
    \/ CloseResults
    \/ MainBranch
    \/ DryReceive
    \/ \E w \in Workers : DryHandoff(w)
    \/ DryExit
    \/ \E i \in Writers : WriterReceive(i)
    \/ \E w \in Workers : \E i \in Writers : WriterHandoff(w, i)
    \/ \E i \in Writers : WriterWrite(i)
    \/ \E i \in Writers : WriterExit(i)
    \/ MainWait
    \/ MainExit

Spec == Init /\ [][Next]_vars

\* The Go scheduler never idles while some goroutine can take a step.
Fairness == WF_vars(Next)

LiveSpec == Spec /\ Fairness

\* ------------------------------------------------- notions used below
N == Len(input.filenames)
RunCalled == mpc \notin {"main", "stopped"}
RunReturned == mpc \in {"returned", "exited"}

InputFile(j) == FileByName(input.filenames[j])
\* a valid script returns a table
ValidScript(script) ==
    /\ ~script.raises
    /\ script.rets # <<>>
    /\ script.rets[Len(script.rets)].type = "table"
AllReadable == \A j \in 1..N : InputFile(j).readable
AllValid == \A j \in 1..N : ValidScript(InputFile(j).script)

WritesOf(j) == {k \in 1..Len(writeLog) : writeLog[k].id = j}
LinesOf(j) == {k \in 1..Len(printed) : printed[k].id = j}
WrittenPairs == {<<writeLog[k].path, writeLog[k].data>> : k \in 1..Len(writeLog)}
WrittenPaths == {writeLog[k].path : k \in 1..Len(writeLog)}

\* the Lua state of the only worker of a one-worker run after its first k
\* jobs: one worker receives the jobs in the order the producer sends them
RECURSIVE SequentialState(_, _)
SequentialState(filenames, k) ==
    IF k = 0 THEN NewLuaStateManager
    ELSE LET added == AddPath(SequentialState(filenames, k - 1),
                              GetPathToFile(filenames[k]))
         IN  RunScript(added.l, ReadFile(filenames[k]).data).l

\* what the only worker of a one-worker run yields for its k-th job
SequentialResult(filenames, k) ==
    LET added == AddPath(SequentialState(filenames, k - 1), GetPathToFile(filenames[k]))
    IN  RunScript(added.l, ReadFile(filenames[k]).data)

AlonePath(filename) ==
    generateOutputFilename(extractOutputFilePath(OutputRoot, filename), filename,
                           input.formatter.suffix)
SequentialPair(filenames, k) ==
    <<AlonePath(filenames[k]), Marshal(input.formatter, SequentialResult(filenames, k).val).data>>

\* ---------------------------------------------------------------- claims
\* C1 (as claimed): a completed non-dry run over readable, valid scripts has
\* written exactly the (path, content) pairs that the run with one worker
\* writes for the same inputs, whatever the worker count and the
\* interleaving.
C1_SameOutputs ==
    (RunReturned /\ ~input.dryRun /\ AllReadable /\ AllValid)
        => WrittenPairs = {SequentialPair(input.filenames, j) : j \in 1..N}

\* C2: no job and no result is received twice or before it was sent, and
\* when run() returns every job sent was received by a worker and every
\* result emitted was received by a writer or the dry-run consumer.
C2_ExactlyOnce ==
    \A j \in 1..MaxFiles :
        /\ jobRecv[j] <= sentJobs[j] /\ sentJobs[j] <= 1
        /\ resRecv[j] <= emitted[j] /\ emitted[j] <= 1
        /\ emitted[j] <= jobRecv[j]
        /\ RunReturned => (jobRecv[j] = sentJobs[j] /\ resRecv[j] = emitted[j])

C2_Witness ==
    /\ RunReturned /\ N = 2
    /\ \A j \in 1..2 : jobRecv[j] = 1 /\ resRecv[j] = 1
    /\ input.workerCount = 2 /\ input.writerCount = 2

Distinct(seq) == \A a, b \in 1..Len(seq) : a # b => seq[a] # seq[b]

\* C3 (as claimed): after a completed non-dry run over N distinct readable,
\* valid inputs there are N distinct output paths, each written exactly
\* once, and no other path is written.
C3_OneFilePerInput ==
    (RunReturned /\ ~input.dryRun /\ AllReadable /\ AllValid
        /\ Distinct(input.filenames))
        => /\ Cardinality(WrittenPaths) = N
           /\ Len(writeLog) = N
           /\ \A j \in 1..N : Cardinality(WritesOf(j)) = 1
           /\ WrittenPaths = {AlonePath(input.filenames[j]) : j \in 1..N}

\* C5: the result channel is closed at most once and only when every worker
\* has exited; no worker is about to send on the closed result channel.
C5_CloseAfterWorkers ==
    /\ outCloses <= 1
    /\ outClosed =>
          /\ wg = 0
          /\ \A w \in 1..input.workerCount : wpc[w] = "done"
          /\ \A w \in Workers : wpc[w] # "send"

C5_Witness ==
    /\ outClosed /\ input.workerCount = 2
    /\ \E j \in 1..MaxFiles : emitted[j] = 1
    /\ \A w \in 1..2 : heap[luaStateManager[w]].status = "closed"

\* C6: when run() has returned every writer (or the dry-run consumer) has
\* finished and every result a worker emitted went through Marshal and
\* WriteFile (or was printed, in a dry run).
C6_ReturnAfterWriters ==
    RunReturned =>
        IF input.dryRun
        THEN \A j \in 1..MaxFiles : Cardinality(LinesOf(j)) = emitted[j]
        ELSE /\ \A i \in 1..input.writerCount : wrpc[i] = "done"
             /\ \A j \in 1..MaxFiles : Cardinality(WritesOf(j)) = emitted[j]
             /\ marshalLog = Len(writeLog)

C6_Witness ==
    /\ RunReturned /\ ~input.dryRun /\ input.writerCount = 2
    /\ Len(writeLog) = 2
    /\ \A j \in 1..2 : emitted[j] = 1

\* C7: the job channel is closed at most once, by the producer, after its
\* last send or after a read error; it is closed when run() returns; no job
\* is sent after the close; a worker leaves its receive loop only when the
\* channel is closed and empty.
C7_State ==
    /\ inCloses <= 1
    /\ inClosed <=> inCloses = 1
    /\ inClosed => /\ ppc = "done"
                   /\ \/ pidx > N
                      \/ ~InputFile(pidx).readable
    /\ RunReturned => inClosed

C7_Step ==
    /\ inCloses' # inCloses => (ppc # "done" /\ ppc' = "done")
    /\ inClosed => (inClosed' /\ sentJobs' = sentJobs)
    /\ \A w \in Workers :
          (wpc[w] # "done" /\ wpc'[w] = "done")
              => (inClosed /\ dataInputChannel = <<>> /\ wpc[w] = "recv")

\* C7: the job channel is closed exactly once, by the producer alone, after
\* its loop has ended, and never by a worker or by main.
C7_JobChannelClose == []C7_State /\ [][C7_Step]_vars

C7_Witness ==
    /\ inClosed /\ N = 2
    /\ \A j \in 1..2 : sentJobs[j] = 1
    /\ \E w \in Workers : wpc[w] = "done"

C9_DryRunPrintsOutputPath ==
    input.dryRun =>
        \A k \in 1..Len(printed) :
            printed[k].line = AlonePath(input.filenames[printed[k].id])

\* C10: when ReadFile fails on the k-th file no job is emitted for the k-th
\* or a later file; when run() has returned the job channel is closed and
\* each of the first k-1 jobs was executed and written (printed in a dry
\* run) exactly once.
C10_ReadErrorStops ==
    \A k \in 1..N :
        (~InputFile(k).readable /\ \A j \in 1..(k - 1) : InputFile(j).readable)
            => /\ \A j \in k..N : sentJobs[j] = 0
               /\ ppc = "done" => inClosed
               /\ RunReturned =>
                     /\ inClosed
                     /\ \A j \in 1..(k - 1) :
                           /\ sentJobs[j] = 1 /\ jobRecv[j] = 1 /\ emitted[j] = 1
                           /\ IF input.dryRun
                              THEN Cardinality(LinesOf(j)) = 1
                              ELSE Cardinality(WritesOf(j)) = 1

C10_Witness ==
    /\ RunReturned /\ N = 2
    /\ InputFile(1).readable /\ ~InputFile(2).readable
    /\ ~input.dryRun /\ Cardinality(WritesOf(1)) = 1

AllWritable == \A j \in 1..N : ~WriteFileFails(AlonePath(input.filenames[j]))
\* Marshal succeeds on what each valid script returns, whatever value an
\* input script has left in the global g
AllMarshalable ==
    \A j \in 1..N :
        \A g \in {LNil} \cup {InputFile(k).script.sets : k \in 1..N} :
            LET rets == InputFile(j).script.rets
            IN  ValidScript(InputFile(j).script)
                    => ~Marshal(input.formatter,
                                GetReturnedMap(Eval(rets[Len(rets)], g)).val).err

RECURSIVE SumTo(_, _)
SumTo(f, n) == IF n = 0 THEN 0 ELSE f[n] + SumTo(f, n - 1)

WorkerRank(pc) ==
    CASE pc = "none" -> 0 [] pc = "init" -> 0 [] pc = "recv" -> 1
      [] pc = "run" -> 2 [] pc = "failed" -> 2 [] pc = "send" -> 3
      [] pc = "done" -> 4
WriterRank(pc) ==
    CASE pc = "none" -> 0 [] pc = "recv" -> 1 [] pc = "write" -> 2
      [] pc = "failed" -> 2 [] pc = "done" -> 3
ProducerRank ==
    CASE ppc = "none" -> 0 [] ppc = "read" -> 1 [] ppc = "send" -> 2
      [] ppc = "stopped" -> 3 [] ppc = "done" -> 4
MainRank ==
    CASE mpc = "main" -> 0 [] mpc = "stopped" -> 1 [] mpc = "start" -> 1
      [] mpc = "branch" -> 2 [] mpc = "dry" -> 3 [] mpc = "wait" -> 3
      [] mpc = "returned" -> 4 [] mpc = "exited" -> 5

\* a number that every step of the pipeline increases
Progress ==
    MainRank + ProducerRank + 2 * pidx
    + SumTo([w \in Workers |-> WorkerRank(wpc[w])], MaxWorkers)
    + SumTo([i \in Writers |-> WriterRank(wrpc[i])], MaxWriters)
    + 3 * SumTo(emitted, MaxFiles) + 2 * marshalLog + Len(printed)
    + inCloses + outCloses
    + (IF proc = "running" THEN 0 ELSE 1)

WorkerJobFails(w) ==
    LET r == RunScript(AddPath(heap[luaStateManager[w]], wjob[w].FilePath).l,
                       wjob[w].Data)
    IN  r.err \/ r.val = GoPanic

C11_State ==
    \A w \in Workers :
        wpc[w] = "failed" => /\ proc = "panic"
                             /\ ~RunReturned
                             /\ emitted[wjob[w].id] = 0
                             /\ wres[w] = NoJob

C11_Step ==
    \A w \in Workers :
        /\ (wpc[w] = "run" /\ wpc'[w] # "run")
              => IF WorkerJobFails(w) THEN wpc'[w] = "failed" /\ proc' = "panic"
                 ELSE wpc'[w] = "send"
        /\ wpc[w] = "failed" => FALSE

WriterItemFails(i) ==
    Marshal(input.formatter, wrItem[i].Data).err \/ WriteFileFails(WriterPath(wrItem[i]))

C12_State ==
    \A i \in Writers : wrpc[i] = "failed" => (proc = "panic" /\ ~RunReturned)

C12_Step ==
    \A i \in Writers :
        /\ (wrpc[i] = "write" /\ wrpc'[i] # "write")
              => IF WriterItemFails(i) THEN wrpc'[i] = "failed" /\ proc' = "panic"
                 ELSE wrpc'[i] = "recv"
        /\ wrpc[i] = "failed" => FALSE

ReadFailed == ppc \in {"stopped", "done"} /\ pidx <= N /\ ~InputFile(pidx).readable
\* an error of the taxonomy occurred: read failure, script error or invalid
\* return value, serialization or write failure
ErrorOccurred ==
    \/ ReadFailed
    \/ \E w \in Workers : wpc[w] = "failed"
    \/ \E i \in Writers : wrpc[i] = "failed"

\* C13 (as claimed): once an error of the taxonomy has occurred the process
\* never ends with the normal completion and exit status 0.
C13_ErrorExitsNonZero == ErrorOccurred => proc # "exit0"

\* no producer, worker, closer or writer was started, no sandbox built, no
\* job sent
NothingStarted ==
    /\ ppc = "none" /\ cpc = "none"
    /\ \A w \in Workers : wpc[w] = "none" /\ luaStateManager[w] = 0
    /\ heap = <<>>
    /\ \A i \in Writers : wrpc[i] = "none"
    /\ \A j \in 1..MaxFiles : sentJobs[j] = 0
    /\ dataInputChannel = <<>> /\ dataOutputChannel = <<>>

\* no part of the pipeline has been started and nothing was discovered
NoPipelineWork ==
    /\ input.filenames = <<>> /\ input.formatter = NoFormatter
    /\ NothingStarted

\* C14 (as claimed): without a positional argument the process does no
\* pipeline work and does not end with exit status 0.
C14_NoArgsUsageError == (cli.nargs = 0) => (NoPipelineWork /\ proc # "exit0")

\* the suffix the configuration asks for: the -suffix flag when given, else
\* the canonical suffix of the format
ExpectedSuffix == IF cli.suffix # <<>> THEN cli.suffix ELSE cli.format

\* C15 (as claimed): the formatter main passes to run() has the user's
\* suffix when one is given and the format's canonical suffix otherwise, and
\* every written path ends in "." and that suffix.
C15_FormatterSuffix ==
    RunCalled =>
        /\ input.formatter.suffix = ExpectedSuffix
        /\ \A k \in 1..Len(writeLog) :
              HasSuffix(writeLog[k].path, <<".">> \o ExpectedSuffix)

\* C16 (as claimed): every path passed to WriteFile is
\* join(output base directory, output base name) + "." + output suffix of the
\* input file the result comes from.
C16_WritePath ==
    \A k \in 1..Len(writeLog) :
        LET filename == input.filenames[writeLog[k].id]
        IN  writeLog[k].path =
                Join(extractOutputFilePath(OutputRoot, filename), extractFilename(filename))
                    \o <<".">> \o input.formatter.suffix

\* C17: when main gets past the argument check, getFormatter fails exactly
\* for the format identifiers other than "json" and "yaml" (the empty one
\* included), and then the process has ended with status 1 and no worker,
\* producer or writer was ever started.
C17_UnknownFormatExits ==
    (cli.nargs >= 1 /\ mpc # "main") =>
        /\ getFormatter(cli.format, cli.suffix).err <=> cli.format \notin {json, yaml}
        /\ proc = "exit1" <=> cli.format \notin {json, yaml}
        /\ cli.format \notin {json, yaml} => (mpc = "stopped" /\ NothingStarted)

C17_Witness ==
    /\ cli.nargs = 1 /\ cli.format = <<>> /\ cli.found # <<>>
    /\ mpc = "stopped" /\ proc = "exit1"

\* the workers that hold a LuaStateManager
Holders == {w \in Workers : luaStateManager[w] # 0}

\* C18: every worker past its first statement holds a LuaStateManager of its
\* own: no two workers hold the same object, and every object has had its
\* methods (AddPath, RunScript, Close) called by the worker holding it only.
C18_ExclusiveSandbox ==
    /\ \A w \in Workers :
          IF wpc[w] \in {"none", "init"} THEN luaStateManager[w] = 0
          ELSE luaStateManager[w] \in 1..Len(heap)
    /\ \A v, w \in Holders : v # w => luaStateManager[v] # luaStateManager[w]
    /\ \A id \in 1..Len(heap) :
          heap[id].users \subseteq {w \in Holders : luaStateManager[w] = id}

C18_Witness ==
    /\ input.workerCount = 2 /\ Len(heap) = 2
    /\ \A w \in 1..2 : /\ heap[luaStateManager[w]].users = {w}
                         /\ heap[luaStateManager[w]].top # LNil
                         /\ heap[luaStateManager[w]].status = "closed"

C19_State ==
    /\ Len(heap) = Cardinality(Holders)
    /\ \A id \in 1..Len(heap) :
          /\ heap[id].closes <= 1
          /\ ~heap[id].afterClose
          /\ heap[id].status = "closed" <=> heap[id].closes = 1
    /\ \A w \in Workers :
          /\ wpc[w] \in {"none", "init"} => (luaStateManager[w] = 0 /\ wjob[w] = NoJob)
          /\ wpc[w] \in {"recv", "run", "send", "failed"}
                => (luaStateManager[w] # 0 /\ heap[luaStateManager[w]].closes = 0)
          /\ wpc[w] = "done"
                => (luaStateManager[w] # 0 /\ heap[luaStateManager[w]].closes = 1)

C19_Step ==
    /\ \A w \in Workers : luaStateManager[w] # 0 => luaStateManager'[w] = luaStateManager[w]
    /\ \A id \in 1..Len(heap) :
          heap'[id].closes # heap[id].closes => (inClosed /\ dataInputChannel = <<>>)

\* C19: a worker builds its LuaStateManager once, before it receives a job,
\* and keeps it; it closes it exactly once, when it leaves its loop with the
\* job channel closed and drained, and calls no method on it afterwards.
C19_SandboxLifecycle == []C19_State /\ [][C19_Step]_vars

C19_Witness ==
    /\ input.workerCount = 1 /\ wpc[1] = "done"
    /\ heap[luaStateManager[1]].closes = 1
    /\ \A j \in 1..2 : jobRecv[j] = 1 /\ emitted[j] = 1

\* ------------------------------------ AddPath on LuaStateManager objects
\* the directories handed to AddPath: two plain ones, one with a backslash,
\* one that does not exist at first
PathDirs == {<<"s">>, <<".">>, BackslashDir, <<"z">>}

\* two new LuaStateManager objects and no pipeline
PathInit ==
    /\ UnitIdle
    /\ cli = [nargs |-> 0, format |-> <<>>, suffix |-> <<>>, override |-> <<>>,
              found |-> <<>>]
    /\ input \in SmallRunInputs /\ ~input.dryRun
    /\ calls = <<>>
    /\ heap = <<NewLuaStateManager, NewLuaStateManager>>
    /\ proc = "running"
    /\ mpc = "main"
    /\ NotStarted

\* variant: the registered paths are one process-wide set
AddPathCall_GlobalSet(id, path) ==
    /\ Len(calls) < MaxCalls
    /\ LET all == UNION {heap[i].addedPaths : i \in 1..Len(heap)}
           r == AddPath([heap[id] EXCEPT !.addedPaths = all], path)
       IN  /\ heap' = [heap EXCEPT ![id] = r.l]
           /\ calls' = Append(calls, [op |-> "AddPath", id |-> id, path |-> path,
                                      err |-> r.err])
    /\ UNCHANGED <<unitVars, input, cli, events, proc, mpc, producerVars, chanVars, wpc, wjob, wres,
                   luaStateManager, wg, cpc, writerVars, countVars, logVars,
                   closeVars>>

\* heap[id].AddPath(path)
AddPathCall(id, path) ==
    /\ Len(calls) < MaxCalls
    /\ LET r == AddPath(heap[id], path)
       IN  /\ heap' = [heap EXCEPT ![id] = r.l]
           /\ calls' = Append(calls, [op |-> "AddPath", id |-> id, path |-> path,
                                      err |-> r.err])
    /\ UNCHANGED <<unitVars, input, cli, events, proc, mpc, producerVars, chanVars, wpc, wjob, wres,
                   luaStateManager, wg, cpc, writerVars, countVars, logVars,
                   closeVars>>

\* a directory that did not exist is created
MakeDir(path) ==
    /\ Len(calls) < MaxCalls
    /\ path \notin ExistingDirs
    /\ calls' = Append(calls, [op |-> "mkdir", id |-> 0, path |-> path, err |-> FALSE])
    /\ UNCHANGED <<unitVars, input, cli, events, proc, mpc, producerVars, chanVars, workerVars, cpc,
                   writerVars, countVars, logVars, closeVars>>

PathNext ==
    \/ \E id \in 1..2, path \in PathDirs : AddPathCall(id, path)
    \/ \E path \in PathDirs : MakeDir(path)

PathSpec == PathInit /\ [][PathNext]_vars

\* how often entry occurs in the search path
Occurrences(pkgPath, entry) ==
    Cardinality({k \in 1..Len(pkgPath) : pkgPath[k] = entry})

\* AddPath(path) on object id has returned without error
Added(id, path) ==
    \E k \in 1..Len(calls) :
        calls[k].op = "AddPath" /\ calls[k].id = id /\ calls[k].path = path /\ ~calls[k].err

\* C20 (as claimed): after any sequence of AddPath calls on one
\* LuaStateManager, a directory occurs in package.path once if an
\* AddPath for it has succeeded and not at all otherwise.
C20_AddPathOnce ==
    \A id \in 1..2, path \in PathDirs :
        Occurrences(heap[id].pkgPath, PathEntry(path)) = IF Added(id, path) THEN 1 ELSE 0

\* the call made by this step, if it is an AddPath call
IsAddPathStep == Len(calls') > Len(calls) /\ calls'[Len(calls')].op = "AddPath"
LastCall == calls'[Len(calls')]

C21_Step ==
    IsAddPathStep =>
        /\ LastCall.path \notin ExistingDirs
              => (LastCall.err /\ heap' = heap)
        /\ (LastCall.path \in ExistingDirs /\ ~Added(LastCall.id, LastCall.path))
              => /\ ~LastCall.err
                 /\ Occurrences(heap'[LastCall.id].pkgPath, PathEntry(LastCall.path)) = 1
                 /\ Escape(LastCall.path) \in heap'[LastCall.id].addedPaths

\* C21: AddPath of a directory that does not exist returns an error and
\* changes nothing in the object; the first AddPath of a directory that
\* exists, after failed calls or not, appends it to package.path and
\* records it.
C21_MissingDirectory == [][C21_Step]_vars

C21_Witness ==
    /\ Len(calls) = 3
    /\ calls[1] = [op |-> "AddPath", id |-> 1, path |-> <<"z">>, err |-> TRUE]
    /\ calls[2].op = "mkdir" /\ calls[2].path = <<"z">>
    /\ calls[3] = [op |-> "AddPath", id |-> 1, path |-> <<"z">>, err |-> FALSE]
    /\ heap[1].pkgPath = <<PathEntry(<<"z">>)>>

C30_Step ==
    IsAddPathStep =>
        /\ \A id \in 1..Len(heap) : id # LastCall.id => heap'[id] = heap[id]
        /\ (/\ \E id \in 1..Len(heap) : id # LastCall.id /\ Added(id, LastCall.path)
            /\ ~Added(LastCall.id, LastCall.path))
              => /\ ~LastCall.err
                 /\ heap'[LastCall.id].pkgPath
                        = Append(heap[LastCall.id].pkgPath, PathEntry(LastCall.path))

\* C30: AddPath on one LuaStateManager leaves every other object as it was,
\* and the first AddPath of a directory on an object appends it to that
\* object's package.path even when another object has registered it.
C30_PathsPerInstance == [][C30_Step]_vars

C30_Witness ==
    /\ Len(calls) = 2
    /\ calls[1] = [op |-> "AddPath", id |-> 1, path |-> <<"s">>, err |-> FALSE]
    /\ calls[2] = [op |-> "AddPath", id |-> 2, path |-> <<"s">>, err |-> FALSE]
    /\ heap[1].pkgPath = <<PathEntry(<<"s">>)>>
    /\ heap[2].pkgPath = <<PathEntry(<<"s">>)>>

C22_State ==
    /\ Len(dataInputChannel) <= input.inputChannelBufferSize
    /\ Len(dataOutputChannel) <= input.outputChannelBufferSize

C22_Step ==
    \A j \in 1..MaxFiles :
        /\ sentJobs'[j] > sentJobs[j]
              => \/ Len(dataInputChannel) < input.inputChannelBufferSize
                 \/ jobRecv'[j] > jobRecv[j]
        /\ emitted'[j] > emitted[j]
              => \/ Len(dataOutputChannel) < input.outputChannelBufferSize
                 \/ resRecv'[j] > resRecv[j]

\* C22: neither channel ever buffers more than its configured size; a job
\* is emitted only into a free slot of the job channel or straight to a
\* receiving worker, and a result only into a free slot of the result
\* channel or straight to a receiving consumer.
C22_BufferBounds == []C22_State /\ [][C22_Step]_vars

C22_Witness ==
    /\ input.inputChannelBufferSize = 1 /\ input.outputChannelBufferSize = 1
    /\ Len(dataOutputChannel) = 1
    /\ \E w \in Workers : wpc[w] = "send" /\ ~CanWorkerSend(w)
    /\ \A j \in 1..2 : sentJobs[j] = 1

EventOrder == <<"produce", "execute", "convert", "emit", "marshal", "write">>

IsPrefix(s, t) == Len(s) <= Len(t) /\ \A k \in 1..Len(s) : s[k] = t[k]

\* C23: what happens to a job happens in the order produce, execute,
\* convert, emit, serialize, write, each at most once, and a file is
\* written for a job only after the job's result was emitted.
C23_EventOrder ==
    \A j \in 1..MaxFiles :
        /\ IsPrefix(events[j], EventOrder)
        /\ (\E k \in 1..Len(writeLog) : writeLog[k].id = j)
              => emitted[j] >= 1 /\ resRecv[j] >= 1
        /\ emitted[j] >= 1 => sentJobs[j] >= 1 /\ jobRecv[j] >= 1

C23_Witness ==
    /\ events[1] = EventOrder
    /\ Len(events[2]) \in 1..3

\* ------------------------------------------------------------------
\* The program run on the script files, with and without -override p, one
\* worker, one writer and unbuffered channels.
Overrides == {<<>>, <<"p">>}

ScriptLists == UNION {[1..n -> {f.name : f \in ScriptFiles}] : n \in 1..MaxFiles}

SandboxInit ==
    InitWith([nargs : {1}, format : {json}, suffix : {<<>>}, override : Overrides,
              found : ScriptLists],
             SmallRunInputs)

SandboxNext ==
    \/ MainStart
    \/ RunStart
    \/ ProducerRead
    \/ ProducerClose
    \/ \E w \in Workers : WorkerInit(w)
    \/ \E w \in Workers : JobHandoff(w)
    \/ \E w \in Workers : WorkerRun(w)
    \/ \E w \in Workers : WorkerShutdown(w)
    \/ CloseResults
    \/ MainBranch
    \/ \E w \in Workers : DryHandoff(w)
    \/ DryExit
    \/ \E w \in Workers : \E i \in Writers : WriterHandoff(w, i)
    \/ \E i \in Writers : WriterWrite(i)
    \/ \E i \in Writers : WriterExit(i)
    \/ MainWait
    \/ MainExit

SandboxSpec == SandboxInit /\ [][SandboxNext]_vars

\* worker w has just run the script of its job: it holds the result to
\* emit, or it failed
HasRun(w) == wjob[w] # NoJob /\ wpc[w] \in {"send", "failed"}

\* the script of the job returns the value of a return statement
Returns(script) == ~script.raises /\ script.rets # <<>>

ReturnValue(script) == script.rets[Len(script.rets)]

RECURSIVE Converts(_, _)
\* x is the Value of the Lua value v: a leaf for a scalar, a Sequence of
\* the integer-keyed elements in index order for a table with integer keys
\* 1..N, a Mapping with one entry per key for a table without
Converts(v, x) ==
    CASE v.type = "bool" -> x = [go |-> "bool", b |-> v.b]
      [] v.type = "number" -> x = [go |-> "number", n |-> v.n]
      [] v.type = "string" -> x = [go |-> "string", s |-> v.s]
      [] v.type = "table" /\ v.arr # <<>> ->
            /\ x.go = "seq"
            /\ Len(x.seq) = Len(v.arr)
            /\ \A i \in 1..Len(v.arr) : Converts(v.arr[i], x.seq[i])
      [] v.type = "table" /\ v.arr = <<>> ->
            /\ x.go = "map"
            /\ DOMAIN x.map = {v.keys[i] : i \in 1..Len(v.keys)}
            /\ \A i \in 1..Len(v.keys) : Converts(v.vals[i], x.map[v.keys[i]])
      [] OTHER -> TRUE

\* C24: a returned table whose keys are exactly 1..N is converted to the
\* Sequence of its N converted elements in index order, and a returned
\* table with string keys only to the Mapping of its converted entries.
C24_TableConversion ==
    \A w \in Workers :
        /\ HasRun(w) /\ Returns(wjob[w].Data)
        /\ ReturnValue(wjob[w].Data).type = "table"
        /\ \/ ReturnValue(wjob[w].Data).arr = <<>>
           \/ ReturnValue(wjob[w].Data).keys = <<>>
        => /\ wpc[w] = "send"
           /\ Converts(ReturnValue(wjob[w].Data), wres[w].Data)

\* C25: a returned table with integer keys 1..N and other keys is
\* converted, without failure, to the Sequence of its N integer-keyed
\* elements.
C25_MixedTable ==
    \A w \in Workers :
        /\ HasRun(w) /\ Returns(wjob[w].Data)
        /\ ReturnValue(wjob[w].Data).type = "table"
        /\ ReturnValue(wjob[w].Data).arr # <<>>
        /\ ReturnValue(wjob[w].Data).keys # <<>>
        => /\ wpc[w] = "send"
           /\ Converts(ReturnValue(wjob[w].Data), wres[w].Data)

RECURSIVE Depth(_)
\* number of calls after which the function v yields a non-function
Depth(v) == IF v.type = "function" THEN 1 + Depth(v.ret) ELSE 0

RECURSIVE ChainEnd(_)
ChainEnd(v) == IF v.type = "function" THEN ChainEnd(v.ret) ELSE v

\* C26: a script that returns a function whose call chain of depth 1, 2 or
\* 3 ends in a Mapping M yields the value of a script that returns M.
C26_ThunkChase ==
    \A w \in Workers :
        /\ HasRun(w) /\ Returns(wjob[w].Data)
        /\ Depth(ReturnValue(wjob[w].Data)) \in 1..3
        /\ IsMapping(ChainEnd(ReturnValue(wjob[w].Data)))
        => /\ wpc[w] = "send"
           /\ wres[w].Data = GetReturnedMap(ChainEnd(ReturnValue(wjob[w].Data))).val

\* C27: a script whose return value is a scalar, nil or a function fails
\* with an error and without a result value, and a result value is
\* produced only for a script whose return value is a table.
C27_NonTableRejected ==
    \A w \in Workers :
        HasRun(w) =>
            /\ /\ Returns(wjob[w].Data)
               /\ ReturnValue(wjob[w].Data).type
                      \in {"bool", "number", "string", "nil", "function"}
               => wpc[w] = "failed" /\ wres[w] = NoJob
            /\ wpc[w] = "send"
               => /\ Returns(wjob[w].Data)
                  /\ ReturnValue(wjob[w].Data).type \in {"table", "require"}

GoNumber(n) == [go |-> "number", n |-> n]

\* {a:1, nested:{x:1, y:9, z:3}}
MergedM ==
    GoMap(("a" :> GoNumber(1))
          @@ ("nested" :> GoMap(("x" :> GoNumber(1)) @@ ("y" :> GoNumber(9))
                                @@ ("z" :> GoNumber(3)))))

\* {a:5, b:{z:1}, c:{v:1}, d:{y:1}}
MergedR ==
    GoMap(("a" :> GoNumber(5))
          @@ ("b" :> GoMap("z" :> GoNumber(1)))
          @@ ("c" :> GoMap("v" :> GoNumber(1)))
          @@ ("d" :> GoMap("y" :> GoNumber(1))))

\* worker w has just run a script that returns require "<name>" in a
\* sandbox with an override suffix
RequiredWithOverride(w, name) ==
    /\ HasRun(w) /\ Returns(wjob[w].Data)
    /\ ReturnValue(wjob[w].Data) = LRequire(name)
    /\ heap[luaStateManager[w]].override # <<>>

\* C28: with an override suffix, requiring a module whose base and
\* override are both Mappings yields their deep merge: base-only keys are
\* kept, two Mappings at a key of the override are merged recursively, and
\* otherwise the override's value replaces the base's.
C28_OverrideMerge ==
    \A w \in Workers :
        /\ RequiredWithOverride(w, <<"m">>)
              => wpc[w] = "send" /\ wres[w].Data = MergedM
        /\ RequiredWithOverride(w, <<"r">>)
              => wpc[w] = "send" /\ wres[w].Data = MergedR

C28_Witness ==
    /\ RequiredWithOverride(1, <<"m">>) /\ wpc[1] = "send"
    /\ wres[1].Data.map["nested"].map["x"] = GoNumber(1)

\* job j is a script that requires a module by a reference beginning
\* with "./", run with an override suffix
RelativeWithOverride(j) ==
    /\ cli.override # <<>>
    /\ j <= Len(input.filenames)
    /\ LET script == ReadFile(input.filenames[j]).data
       IN  /\ Returns(script)
           /\ ReturnValue(script).type = "require"
           /\ HasPrefix(ReturnValue(script).name, <<".", "/">>)

\* C29: with an override suffix, a script that requires a module by a
\* reference beginning with "./" fails in the worker, and no result is
\* ever emitted for it.
C29_RelativeRejected ==
    \A j \in 1..MaxFiles :
        RelativeWithOverride(j) =>
            /\ emitted[j] = 0
            /\ \A w \in Workers :
                   HasRun(w) /\ wjob[w].id = j
                      => wpc[w] = "failed" /\ proc = "panic" /\ wres[w] = NoJob

C29_Witness ==
    /\ mpc # "main" /\ RelativeWithOverride(2)
    /\ HasRun(1) /\ wjob[1].id = 2 /\ wpc[1] = "failed"

\* C31: a job whose script returns no value fails in the worker, whatever
\* the worker ran before: nothing left on the interpreter stack by an
\* earlier script is taken as its return value.
C31_NoReturnFails ==
    \A w \in Workers :
        /\ HasRun(w)
        /\ ~wjob[w].Data.raises
        /\ wjob[w].Data.rets = <<>>
        => wpc[w] = "failed" /\ wres[w] = NoJob

\* what a worker whose LuaStateManager was just built produces for job
FreshResult(job) ==
    RunScript(AddPath(NewLuaStateManagerInput(cli.override), job.FilePath).l, job.Data)

\* C32: what a worker produces for a job is what a worker without any
\* earlier job produces for it: the same failure, or the same value.
C32_HistoryIndependent ==
    \A w \in Workers :
        HasRun(w) =>
            LET fresh == FreshResult(wjob[w])
            IN  IF fresh.err \/ fresh.val = GoPanic
                THEN wpc[w] = "failed"
                ELSE wpc[w] = "send" /\ wres[w].Data = fresh.val

\* worker w is about to run a job whose directory AddPath rejects
AddPathFails(w) ==
    /\ wpc[w] = "run"
    /\ AddPath(heap[luaStateManager[w]], wjob[w].FilePath).err

C33_Step ==
    \A w \in Workers :
        AddPathFails(w) /\ wpc'[w] # "run" =>
            LET r == RunScript(heap[luaStateManager[w]], wjob[w].Data)
            IN  IF r.err \/ r.val = GoPanic
                THEN wpc'[w] = "failed"
                ELSE /\ wpc'[w] = "send" /\ proc' = proc
                     /\ wres'[w].id = wjob[w].id /\ wres'[w].Data = r.val

\* C33: when AddPath fails for a job's directory the worker still runs
\* the job's script on its unchanged interpreter, fails only if the script
\* does, and otherwise goes on to emit the script's result.
C33_AddPathErrorIgnored == [][C33_Step]_vars

C33_Witness ==
    /\ Len(input.filenames) = 2
    /\ GetPathToFile(input.filenames[2]) \notin ExistingDirs
    /\ emitted[1] = 1 /\ emitted[2] = 1
    /\ proc = "running"

\* ------------------------------------------------------------------
\* The program with worker and writer counts from 0, on files that are
\* read, run and written without error.
ZeroInputs ==
    [filenames : {<<>>},
     formatter : {NoFormatter},
     inputChannelBufferSize : 0..MaxBuf,
     outputChannelBufferSize : 0..MaxBuf,
     workerCount : 0..1,
     writerCount : 0..1,
     dryRun : BOOLEAN]

ZeroLists == UNION {[1..n -> {FileA.name, FileB.name}] : n \in 0..MaxFiles}

ZeroInit ==
    InitWith({c \in CommandLines({json}, {<<>>}, ZeroLists) : c.nargs = 1}, ZeroInputs)

ZeroSpec == ZeroInit /\ [][Next]_vars

\* C34: when a non-dry run without error returns, whatever the counts of
\* workers and writers (zero included), the producer and every worker have
\* finished and the output of every readable input file is written.
C34_ReturnsWhenAllDone ==
    RunReturned /\ ~input.dryRun /\ ~ErrorOccurred =>
        /\ ppc = "done"
        /\ \A w \in 1..input.workerCount : wpc[w] = "done"
        /\ \A j \in 1..N : InputFile(j).readable => WritesOf(j) # {}

\* jobs the producer has read so far
JobsRead == (pidx - 1) + (IF ppc = "send" THEN 1 ELSE 0)

\* results taken from the result channel so far
ResultsConsumed == SumTo(resRecv, MaxFiles)

Pending == JobsRead - ResultsConsumed

PendingBound ==
    input.inputChannelBufferSize + input.workerCount
        + input.outputChannelBufferSize + 1

PoolInit ==
    /\ cli = [nargs |-> 0, format |-> <<>>, suffix |-> <<>>, override |-> <<>>,
              found |-> <<>>]
    /\ input \in SmallRunInputs /\ ~input.dryRun
    /\ calls = <<>> /\ heap = <<>>
    /\ proc = "running" /\ mpc = "main"
    /\ NotStarted
    /\ LsmpIdle /\ MemoryIdle
    /\ maxWorkers \in 1..MaxPoolWorkers
    /\ items \in 0..MaxItems
    /\ sender = [pc |-> "send", k |-> 1]
    /\ workClosed = FALSE
    /\ runner = [pc |-> "range", work |-> 0]
    /\ workerChannel = 0 /\ poolWg = 0
    /\ task = [i \in 1..items |-> "none"]
    /\ received = [i \in 1..items |-> 0]
    /\ invocations = [i \in 1..items |-> 0]
    /\ resultsClosed = FALSE

\* no goroutine has panicked
PoolRunning == \A i \in 1..items : task[i] # "panicked"

\* filenameDataChannel <- item, received by `for work := range workChannel`
PoolSend ==
    /\ PoolRunning
    /\ sender.pc = "send" /\ sender.k <= items
    /\ runner.pc = "range" /\ ~workClosed
    /\ sender' = [sender EXCEPT !.k = @ + 1]
    /\ runner' = [pc |-> "acquire", work |-> sender.k]
    /\ received' = [received EXCEPT ![sender.k] = @ + 1]
    /\ UNCHANGED <<pipelineVars, lsmpVars, memVars, maxWorkers, items, workClosed, workerChannel, poolWg,
                   task, invocations, resultsClosed>>

\* close(filenameDataChannel)
PoolCloseWork ==
    /\ PoolRunning
    /\ sender.pc = "send" /\ sender.k > items
    /\ workClosed' = TRUE
    /\ sender' = [sender EXCEPT !.pc = "wait"]
    /\ UNCHANGED <<pipelineVars, lsmpVars, memVars, maxWorkers, items, runner, workerChannel, poolWg, task,
                   received, invocations, resultsClosed>>

\* the range loop of Run ends on the closed work channel
PoolRunExit ==
    /\ PoolRunning
    /\ runner.pc = "range" /\ workClosed
    /\ runner' = [runner EXCEPT !.pc = "returned"]
    /\ UNCHANGED <<pipelineVars, lsmpVars, memVars, maxWorkers, items, sender, workClosed, workerChannel,
                   poolWg, task, received, invocations, resultsClosed>>

\* variant: a worker slot is taken even when none is free
PoolAcquire_NoLimit ==
    /\ PoolRunning
    /\ runner.pc = "acquire"
    /\ workerChannel' = workerChannel + 1
    /\ runner' = [runner EXCEPT !.pc = "add"]
    /\ UNCHANGED <<pipelineVars, lsmpVars, memVars, maxWorkers, items, sender, workClosed, poolWg, task,
                   received, invocations, resultsClosed>>

\* workerChannel <- struct{}{}: blocks while maxWorkers slots are taken
PoolAcquire ==
    /\ PoolRunning
    /\ runner.pc = "acquire"
    /\ workerChannel < maxWorkers
    /\ workerChannel' = workerChannel + 1
    /\ runner' = [runner EXCEPT !.pc = "add"]
    /\ UNCHANGED <<pipelineVars, lsmpVars, memVars, maxWorkers, items, sender, workClosed, poolWg, task,
                   received, invocations, resultsClosed>>

\* wg.Add(1)
PoolAdd ==
    /\ PoolRunning
    /\ runner.pc = "add"
    /\ poolWg' = poolWg + 1
    /\ runner' = [runner EXCEPT !.pc = "go"]
    /\ UNCHANGED <<pipelineVars, lsmpVars, memVars, maxWorkers, items, sender, workClosed, workerChannel,
                   task, received, invocations, resultsClosed>>

\* go func(work T) {...}(work): the goroutine enters workerFunc(work)
PoolGo ==
    /\ PoolRunning
    /\ runner.pc = "go"
    /\ task' = [task EXCEPT ![runner.work] = "started"]
    /\ invocations' = [invocations EXCEPT ![runner.work] = @ + 1]
    /\ runner' = [pc |-> "range", work |-> 0]
    /\ UNCHANGED <<pipelineVars, lsmpVars, memVars, maxWorkers, items, sender, workClosed, workerChannel,
                   poolWg, received, resultsClosed>>

\* workerFunc(work) of the caller: on an error it returns, else it sends
\* its result, and a send on the closed result channel panics
PoolWorkerFunc(i) ==
    /\ PoolRunning
    /\ task[i] = "started"
    /\ \E ok \in BOOLEAN :
          task' = [task EXCEPT ![i] = IF ok /\ resultsClosed THEN "panicked"
                                      ELSE "returned"]
    /\ UNCHANGED <<pipelineVars, lsmpVars, memVars, maxWorkers, items, sender, workClosed, runner,
                   workerChannel, poolWg, received, invocations, resultsClosed>>

\* deferred: <-workerChannel
PoolRelease(i) ==
    /\ PoolRunning
    /\ task[i] = "returned"
    /\ workerChannel > 0
    /\ workerChannel' = workerChannel - 1
    /\ task' = [task EXCEPT ![i] = "released"]
    /\ UNCHANGED <<pipelineVars, lsmpVars, memVars, maxWorkers, items, sender, workClosed, runner, poolWg,
                   received, invocations, resultsClosed>>

\* deferred: wg.Done()
PoolDone(i) ==
    /\ PoolRunning
    /\ task[i] = "released"
    /\ poolWg' = poolWg - 1
    /\ task' = [task EXCEPT ![i] = "done"]
    /\ UNCHANGED <<pipelineVars, lsmpVars, memVars, maxWorkers, items, sender, workClosed, runner,
                   workerChannel, received, invocations, resultsClosed>>

\* pooledProcessor.Wait(): wg.Wait() returns when the counter is zero
PoolWait ==
    /\ PoolRunning
    /\ sender.pc = "wait" /\ poolWg = 0
    /\ sender' = [sender EXCEPT !.pc = "close"]
    /\ UNCHANGED <<pipelineVars, lsmpVars, memVars, maxWorkers, items, workClosed, runner, workerChannel,
                   poolWg, task, received, invocations, resultsClosed>>

\* close(fileDataChannel)
PoolCloseResults ==
    /\ PoolRunning
    /\ sender.pc = "close"
    /\ resultsClosed' = TRUE
    /\ sender' = [sender EXCEPT !.pc = "done"]
    /\ UNCHANGED <<pipelineVars, lsmpVars, memVars, maxWorkers, items, workClosed, runner, workerChannel,
                   poolWg, task, received, invocations>>

PoolNext ==
    \/ PoolSend
    \/ PoolCloseWork
    \/ PoolRunExit
    \/ PoolAcquire
    \/ PoolAdd
    \/ PoolGo
    \/ \E i \in 1..items : PoolWorkerFunc(i)
    \/ \E i \in 1..items : PoolRelease(i)
    \/ \E i \in 1..items : PoolDone(i)
    \/ PoolWait
    \/ PoolCloseResults

PoolSpec == PoolInit /\ [][PoolNext]_vars

\* the items whose workerFunc invocation is in progress
InProgress == {i \in 1..items : task[i] = "started"}

\* C36: never more than maxWorkers invocations of workerFunc are in
\* progress, and every item Run received is passed to workerFunc exactly
\* once: never twice, and once by the time Run has returned.
C36_BoundedPool ==
    /\ Cardinality(InProgress) <= maxWorkers
    /\ \A i \in 1..items :
          /\ invocations[i] <= received[i] /\ received[i] <= 1
          /\ runner.pc = "returned" => invocations[i] = received[i]

C36_Witness ==
    /\ maxWorkers = 2 /\ Cardinality(InProgress) = 2
    /\ runner.pc = "acquire" /\ received[3] = 1 /\ invocations[3] = 0

\* workerFunc has returned for item i
Finished(i) == task[i] \in {"returned", "released", "done"}

\* C37: when Wait has returned, workerFunc has finished for every item that
\* was sent, so that no worker sends to the result channel closed after it.
C37_WaitCoversAllItems ==
    /\ sender.pc \in {"close", "done"} => \A i \in 1..items : Finished(i)
    /\ PoolRunning

\* ------------------------------------------------------------------
\* LuaStateManagerPool: the pool after NewLuaStateManagerPool(n, setup),
\* users that Get and Put states, the collector that may empty a
\* sync.Pool, and the call of Close.

\* the pipeline is not in use
PipelineIdle ==
    /\ cli = [nargs |-> 0, format |-> <<>>, suffix |-> <<>>, override |-> <<>>,
              found |-> <<>>]
    /\ input \in SmallRunInputs /\ ~input.dryRun
    /\ calls = <<>> /\ heap = <<>>
    /\ proc = "running" /\ mpc = "main"
    /\ NotStarted

\* NewLuaStateManagerPool(initialSize, setup): initialSize states are Put
\* into the sync.Pool and size is initialSize
NewLuaStateManagerPool(initialSize) == [size |-> initialSize, pool |-> 1..initialSize]

LsmpInit ==
    /\ PipelineIdle /\ PoolableIdle /\ MemoryIdle
    /\ \E n \in 0..MaxPoolSize : statePool = NewLuaStateManagerPool(n)
    /\ taken = {} /\ closedStates = {}
    /\ closer = [pc |-> "idle", i |-> 0, full |-> FALSE]

\* p.Get() of a user: some state of the sync.Pool
LsmpGet ==
    /\ closer.pc = "idle"
    /\ \E st \in statePool.pool :
          /\ statePool' = [statePool EXCEPT !.pool = @ \ {st}]
          /\ taken' = taken \cup {st}
    /\ UNCHANGED <<pipelineVars, poolableVars, memVars, closedStates, closer>>

\* p.Put(L) of a user
LsmpPut ==
    /\ closer.pc = "idle"
    /\ \E st \in taken :
          /\ statePool' = [statePool EXCEPT !.pool = @ \cup {st}]
          /\ taken' = taken \ {st}
    /\ UNCHANGED <<pipelineVars, poolableVars, memVars, closedStates, closer>>

\* sync.Pool: an item stored in the pool may be removed by the collector
\* (here: before Close is called)
LsmpDrop ==
    /\ closer.pc = "idle"
    /\ \E st \in statePool.pool :
          statePool' = [statePool EXCEPT !.pool = @ \ {st}]
    /\ UNCHANGED <<pipelineVars, poolableVars, memVars, taken, closedStates, closer>>

\* p.Close() is called: i := 0
LsmpClose ==
    /\ closer.pc = "idle"
    /\ closer' = [pc |-> "loop", i |-> 0,
                  full |-> statePool.pool = 1..statePool.size]
    /\ UNCHANGED <<pipelineVars, poolableVars, memVars, statePool, taken, closedStates>>

\* one iteration that gets a state: state.Close(), i++ in the body and
\* the i++ of the for statement
LsmpCloseStep ==
    /\ closer.pc = "loop" /\ closer.i < statePool.size
    /\ \E st \in statePool.pool :
          /\ statePool' = [statePool EXCEPT !.pool = @ \ {st}]
          /\ closedStates' = closedStates \cup {st}
    /\ closer' = [closer EXCEPT !.i = @ + 2]
    /\ UNCHANGED <<pipelineVars, poolableVars, memVars, taken>>

\* one iteration in which Get returns nil: break
LsmpCloseBreak ==
    /\ closer.pc = "loop" /\ closer.i < statePool.size
    /\ statePool.pool = {}
    /\ closer' = [closer EXCEPT !.pc = "returned"]
    /\ UNCHANGED <<pipelineVars, poolableVars, memVars, statePool, taken, closedStates>>

\* the loop condition i < p.size fails
LsmpCloseReturn ==
    /\ closer.pc = "loop" /\ closer.i >= statePool.size
    /\ closer' = [closer EXCEPT !.pc = "returned"]
    /\ UNCHANGED <<pipelineVars, poolableVars, memVars, statePool, taken, closedStates>>

LsmpNext ==
    \/ LsmpGet
    \/ LsmpPut
    \/ LsmpDrop
    \/ LsmpClose
    \/ LsmpCloseStep
    \/ LsmpCloseBreak
    \/ LsmpCloseReturn

LsmpSpec == LsmpInit /\ [][LsmpNext]_vars

\* C38: when Close is called on a pool that holds all of its n states, it
\* has closed n states when it returns.
C38_CloseClosesAll ==
    (closer.pc = "returned" /\ closer.full)
        => Cardinality(closedStates) = statePool.size

\* ------------------------------------------------------------------
\* MemoryFileProcessor with callers of ReadFile, WriteFile and FindFiles.
MemPaths == {<<"a">>, <<"b">>, <<"d", "/", "a">>}
MemData == {"x", "y"}
MemGlobs == {<<"*">>, <<"a">>, <<"d", "/", "*">>, <<"[">>}
GlobLists == UNION {[1..n -> MemGlobs] : n \in 0..MaxGlobs}

\* filepath.Match: a character class that is not closed is a bad pattern
BadPattern(pattern) == \E i \in 1..Len(pattern) : pattern[i] = "["

\* filepath.Match for patterns of literal characters and "*", which
\* matches any sequence of characters other than the separator
RECURSIVE Matches(_, _)
Matches(pattern, name) ==
    IF pattern = <<>> THEN name = <<>>
    ELSE IF Head(pattern) = "*"
         THEN \E k \in 0..Len(name) :
                /\ \A j \in 1..k : name[j] # "/"
                /\ Matches(Tail(pattern), SubSeq(name, k + 1, Len(name)))
         ELSE /\ name # <<>>
              /\ Head(name) = Head(pattern)
              /\ Matches(Tail(pattern), Tail(name))

Match(pattern, name) ==
    IF BadPattern(pattern) THEN [matched |-> FALSE, err |-> TRUE]
    ELSE [matched |-> Matches(pattern, name), err |-> FALSE]

\* the orders in which a range over a map can visit the keys in S
Orders(S) ==
    {o \in [1..Cardinality(S) -> S] : \A i, j \in DOMAIN o : i # j => o[i] # o[j]}

\* the results FindFiles(globs) can return without an error
RECURSIVE FindResults(_, _)
FindResults(globs, data) ==
    IF globs = <<>> THEN {<<>>}
    ELSE {found \o rest :
            found \in Orders({q \in DOMAIN data : Match(Head(globs), q).matched}),
            rest \in FindResults(Tail(globs), data)}

\* FindFiles returns the error of the first Match call that fails
FindFails(globs, data) ==
    \E i \in 1..Len(globs) : \E q \in DOMAIN data : Match(globs[i], q).err

\* the zero value of the struct has a nil map; the other processor has a
\* map made by a composite literal inside the package
MemInit ==
    /\ PipelineIdle /\ PoolableIdle /\ LsmpIdle
    /\ memory \in [nil : BOOLEAN, data : {<<>>}]
    /\ written = <<>>
    /\ memCall = [op |-> "none", path |-> <<>>, data |-> "", err |-> FALSE,
                  result |-> <<>>, before |-> <<>>, panicked |-> FALSE]

\* m.data[filePath] = data: an assignment to an entry of a nil map panics
MemWriteFile(filePath, data) ==
    /\ ~memCall.panicked
    /\ memory' = IF memory.nil THEN memory
                 ELSE [memory EXCEPT !.data =
                         [q \in DOMAIN memory.data \cup {filePath} |->
                            IF q = filePath THEN data ELSE memory.data[q]]]
    /\ written' = [q \in DOMAIN written \cup {filePath} |->
                     IF q = filePath THEN data ELSE written[q]]
    /\ memCall' = [op |-> "WriteFile", path |-> filePath, data |-> data,
                   err |-> FALSE, result |-> <<>>, before |-> memory.data,
                   panicked |-> memory.nil]
    /\ UNCHANGED <<pipelineVars, poolableVars, lsmpVars>>

MemReadFile(filePath) ==
    /\ ~memCall.panicked
    /\ memCall' = [op |-> "ReadFile", path |-> filePath,
                   data |-> IF filePath \in DOMAIN memory.data
                            THEN memory.data[filePath] ELSE "",
                   err |-> filePath \notin DOMAIN memory.data,
                   result |-> <<>>, before |-> memory.data, panicked |-> FALSE]
    /\ UNCHANGED <<pipelineVars, poolableVars, lsmpVars, memory, written>>

MemFindFiles(globs) ==
    /\ ~memCall.panicked
    /\ \E found \in FindResults(globs, memory.data) :
          memCall' = [op |-> "FindFiles", path |-> <<>>, data |-> "",
                      err |-> FindFails(globs, memory.data),
                      result |-> IF FindFails(globs, memory.data) THEN <<>> ELSE found,
                      before |-> memory.data, panicked |-> FALSE]
    /\ UNCHANGED <<pipelineVars, poolableVars, lsmpVars, memory, written>>

MemNext ==
    \/ \E filePath \in MemPaths, data \in MemData : MemWriteFile(filePath, data)
    \/ \E filePath \in MemPaths : MemReadFile(filePath)
    \/ \E globs \in GlobLists : MemFindFiles(globs)

MemSpec == MemInit /\ [][MemNext]_vars

\* C39: every WriteFile call completes; ReadFile(p) returns the data of
\* the last WriteFile(p, d) and an error for a path never written;
\* WriteFile(p, d) leaves every other path as it was; FindFiles returns
\* only paths that were written.
C39_MemoryStore ==
    /\ ~memCall.panicked
    /\ memCall.op = "ReadFile" =>
          IF memCall.path \in DOMAIN written
          THEN ~memCall.err /\ memCall.data = written[memCall.path]
          ELSE memCall.err
    /\ memCall.op = "WriteFile" =>
          \A q \in MemPaths \ {memCall.path} :
             /\ q \in DOMAIN memCall.before <=> q \in DOMAIN memory.data
             /\ q \in DOMAIN memCall.before => memory.data[q] = memCall.before[q]
    /\ memCall.op = "FindFiles" =>
          \A i \in 1..Len(memCall.result) : memCall.result[i] \in DOMAIN written

====
